---------------------------- MODULE Spec2Model ----------------------------
(***************************************************************************)
(* CaptionGenerator backend: the caption use case, the three provider      *)
(* adapters (gemini, openai, ollama), the response extractors, the JSON    *)
(* parse step and the CaptionEntity rules, as a state machine.             *)
(*                                                                         *)
(* Text is a TLA+ string; a character is a string of length 1.  Python     *)
(* values (what json.loads returns, what an entity field holds) are tagged *)
(* records: t names the Python type, a second field holds the value.       *)
(***************************************************************************)
EXTENDS Integers, Sequences, FiniteSets, TLC

(***************************************************************************)
(* Python str operations                                                   *)
(***************************************************************************)

\* The character of s at 1-based index i ("" outside the string).
CharAt(s, i) == IF i >= 1 /\ i <= Len(s) THEN SubSeq(s, i, i) ELSE ""

\* Characters str.strip() removes (ASCII part of str.isspace()).
IsSpace(c) == c \in {" ", "\n", "\t", "\r", "\f"}

RECURSIVE FirstNonSpace(_, _)
\* Index of the first non-whitespace character at or after i; Len(s)+1 if none.
FirstNonSpace(s, i) ==
    IF i > Len(s) THEN Len(s) + 1
    ELSE IF IsSpace(CharAt(s, i)) THEN FirstNonSpace(s, i + 1)
    ELSE i

RECURSIVE LastNonSpace(_, _)
\* Index of the last non-whitespace character at or before i; 0 if none.
LastNonSpace(s, i) ==
    IF i < 1 THEN 0
    ELSE IF IsSpace(CharAt(s, i)) THEN LastNonSpace(s, i - 1)
    ELSE i

\* str.strip()
Strip(s) ==
    LET a == FirstNonSpace(s, 1)
        b == LastNonSpace(s, Len(s))
    IN  IF a > b THEN "" ELSE SubSeq(s, a, b)

\* str.startswith(p)
StartsWith(s, p) == Len(p) <= Len(s) /\ SubSeq(s, 1, Len(p)) = p

\* The 1-based indices at which sub occurs in s.
Occurrences(s, sub) ==
    { i \in 1..(Len(s) - Len(sub) + 1) : SubSeq(s, i, i + Len(sub) - 1) = sub }

\* 1-based index of the first occurrence of sub in s; 0 if none (str.find,
\* shifted by one).
Find(s, sub) ==
    LET I == Occurrences(s, sub)
    IN  IF I = {} THEN 0 ELSE CHOOSE i \in I : \A j \in I : i <= j

\* 1-based index of the last occurrence of sub in s; 0 if none (str.rfind,
\* shifted by one).
RFind(s, sub) ==
    LET I == Occurrences(s, sub)
    IN  IF I = {} THEN 0 ELSE CHOOSE i \in I : \A j \in I : i >= j

\* sub in s
Contains(s, sub) == Find(s, sub) # 0

\* s.split(sep)[0]: the text before the first sep, all of s when sep is absent.
SplitFirst(s, sep) ==
    LET k == Find(s, sep)
    IN  IF k = 0 THEN s ELSE SubSeq(s, 1, k - 1)

\* s.split(sep)[1] for s that contains sep: the text between the first sep and
\* the next one (to the end when there is no next one).
SplitSecond(s, sep) ==
    LET k    == Find(s, sep)
        rest == SubSeq(s, k + Len(sep), Len(s))
    IN  SplitFirst(rest, sep)

LowerChar(c) ==
    CASE c = "A" -> "a" [] c = "B" -> "b" [] c = "C" -> "c" [] c = "D" -> "d"
      [] c = "E" -> "e" [] c = "F" -> "f" [] c = "G" -> "g" [] c = "H" -> "h"
      [] c = "I" -> "i" [] c = "J" -> "j" [] c = "K" -> "k" [] c = "L" -> "l"
      [] c = "M" -> "m" [] c = "N" -> "n" [] c = "O" -> "o" [] c = "P" -> "p"
      [] c = "Q" -> "q" [] c = "R" -> "r" [] c = "S" -> "s" [] c = "T" -> "t"
      [] c = "U" -> "u" [] c = "V" -> "v" [] c = "W" -> "w" [] c = "X" -> "x"
      [] c = "Y" -> "y" [] c = "Z" -> "z" [] OTHER -> c

RECURSIVE Lower(_)
\* str.lower() on ASCII text
Lower(s) == IF s = "" THEN "" ELSE LowerChar(Head(s)) \o Lower(Tail(s))

(***************************************************************************)
(* Python values                                                           *)
(***************************************************************************)

PyStr(s) == [t |-> "str", s |-> s]
\* An int, held as its decimal digits.
PyInt(d) == [t |-> "int", digits |-> d]
PyNone == [t |-> "NoneType"]
PyBool(b) == [t |-> "bool", b |-> b]
\* A list, held as the sequence of its items.
PyList(xs) == [t |-> "list", items |-> xs]
\* A dict, held as the sequence of its [k, val] pairs in insertion order.
PyDict(ps) == [t |-> "dict", pairs |-> ps]

\* len(x) for the values that have one.
PyLen(x) ==
    CASE x.t = "str"  -> Len(x.s)
      [] x.t = "list" -> Len(x.items)
      [] x.t = "dict" -> Len(x.pairs)

RECURSIVE AllZero(_)
AllZero(d) == d = "" \/ (Head(d) = "0" /\ AllZero(Tail(d)))

\* bool(x) is False: what `not x` tests.
Falsy(x) ==
    CASE x.t = "str"      -> x.s = ""
      [] x.t = "int"      -> AllZero(x.digits)
      [] x.t = "NoneType" -> TRUE
      [] x.t = "bool"     -> ~x.b
      [] x.t = "list"     -> Len(x.items) = 0
      [] x.t = "dict"     -> Len(x.pairs) = 0

\* Index of key k among the items of a dict; 0 when absent.
KeyIndex(ps, k) ==
    IF \E i \in 1..Len(ps) : ps[i].k = k
    THEN CHOOSE i \in 1..Len(ps) : ps[i].k = k
    ELSE 0

\* d[k] = val on a dict's items: a repeated key keeps its place and takes the
\* last value.
DictSet(ps, k, val) ==
    LET i == KeyIndex(ps, k)
    IN  IF i = 0 THEN Append(ps, [k |-> k, val |-> val])
        ELSE [ps EXCEPT ![i] = [k |-> k, val |-> val]]

(***************************************************************************)
(* json.loads on the part of JSON the modelled texts use: objects, arrays, *)
(* strings with the escapes \" \\ \/ \n \t, unsigned integers, null, true,  *)
(* false, and the whitespace space, tab, newline, carriage return.         *)
(* A parse result is [ok, val, pos]: pos is the index after the value.     *)
(***************************************************************************)

IsJsonSpace(c) == c \in {" ", "\t", "\n", "\r"}

IsDigit(c) == c \in {"0", "1", "2", "3", "4", "5", "6", "7", "8", "9"}

RECURSIVE SkipWS(_, _)
SkipWS(s, i) ==
    IF i <= Len(s) /\ IsJsonSpace(CharAt(s, i)) THEN SkipWS(s, i + 1) ELSE i

ParseFail == [ok |-> FALSE, val |-> PyNone, pos |-> 0]

ParseOk(val, pos) == [ok |-> TRUE, val |-> val, pos |-> pos]

RECURSIVE ScanString(_, _, _)
\* The body of a string literal from index j (after the opening quote), acc
\* holding the characters read so far.
ScanString(s, j, acc) ==
    LET c == CharAt(s, j)
        e == CharAt(s, j + 1)
    IN  IF j > Len(s) THEN ParseFail
        ELSE IF c = "\"" THEN ParseOk(PyStr(acc), j + 1)
        ELSE IF c = "\\" THEN
            IF e = "\"" THEN ScanString(s, j + 2, acc \o "\"")
            ELSE IF e = "\\" THEN ScanString(s, j + 2, acc \o "\\")
            ELSE IF e = "/" THEN ScanString(s, j + 2, acc \o "/")
            ELSE IF e = "n" THEN ScanString(s, j + 2, acc \o "\n")
            ELSE IF e = "t" THEN ScanString(s, j + 2, acc \o "\t")
            ELSE ParseFail
        ELSE IF c \in {"\n", "\t", "\r", "\f"} THEN ParseFail
        ELSE ScanString(s, j + 1, acc \o c)

RECURSIVE ScanDigits(_, _)
\* Index after the run of digits that starts at i.
ScanDigits(s, i) ==
    IF i <= Len(s) /\ IsDigit(CharAt(s, i)) THEN ScanDigits(s, i + 1) ELSE i

\* An unsigned integer at i: "0", or a run of digits not starting with "0".
ParseNumber(s, i) ==
    LET j == IF CharAt(s, i) = "0" THEN i + 1 ELSE ScanDigits(s, i)
    IN  ParseOk(PyInt(SubSeq(s, i, j - 1)), j)

HasAt(s, i, w) == i + Len(w) - 1 <= Len(s) /\ SubSeq(s, i, i + Len(w) - 1) = w

RECURSIVE ParseValue(_, _)
RECURSIVE ParseMembers(_, _, _)
RECURSIVE ParseElements(_, _, _)

\* After the member key: val: the object closes, or a comma and the next key
\* follow.  got holds the members read so far, m is the index after val.
AfterMember(s, got, m) ==
    IF CharAt(s, m) = "}" THEN ParseOk(PyDict(got), m + 1)
    ELSE IF CharAt(s, m) # "," THEN ParseFail
    ELSE IF CharAt(s, SkipWS(s, m + 1)) # "\"" THEN ParseFail
    ELSE ParseMembers(s, SkipWS(s, m + 1), got)

\* The member whose key has been read: val is the parse of its value.
MemberValue(s, acc, key, val) ==
    IF ~val.ok THEN ParseFail
    ELSE AfterMember(s, DictSet(acc, key.val.s, val.val), SkipWS(s, val.pos))

\* The member whose key literal parsed as key: the colon, then the value.
MemberKey(s, acc, key, c) ==
    IF ~key.ok THEN ParseFail
    ELSE IF CharAt(s, c) # ":" THEN ParseFail
    ELSE MemberValue(s, acc, key, ParseValue(s, SkipWS(s, c + 1)))

\* The members of an object from the opening quote of a key at index j.
ParseMembers(s, j, acc) ==
    MemberKey(s, acc, ScanString(s, j + 1, ""), SkipWS(s, ScanString(s, j + 1, "").pos))

\* After an element: the array closes, or a comma and the next element follow.
AfterElement(s, got, m) ==
    IF CharAt(s, m) = "]" THEN ParseOk(PyList(got), m + 1)
    ELSE IF CharAt(s, m) # "," THEN ParseFail
    ELSE ParseElements(s, SkipWS(s, m + 1), got)

\* The element that parsed as val.
ElementValue(s, acc, val) ==
    IF ~val.ok THEN ParseFail
    ELSE AfterElement(s, Append(acc, val.val), SkipWS(s, val.pos))

\* The elements of an array from the first character of an element at index j.
ParseElements(s, j, acc) == ElementValue(s, acc, ParseValue(s, j))

\* The JSON value that starts exactly at index i.
ParseValue(s, i) ==
    LET c == CharAt(s, i)
        j == SkipWS(s, i + 1)
    IN  IF c = "\"" THEN ScanString(s, i + 1, "")
        ELSE IF c = "{" THEN
            IF CharAt(s, j) = "}" THEN ParseOk(PyDict(<<>>), j + 1)
            ELSE IF CharAt(s, j) # "\"" THEN ParseFail
            ELSE ParseMembers(s, j, <<>>)
        ELSE IF c = "[" THEN
            IF CharAt(s, j) = "]" THEN ParseOk(PyList(<<>>), j + 1)
            ELSE ParseElements(s, j, <<>>)
        ELSE IF HasAt(s, i, "null") THEN ParseOk(PyNone, i + 4)
        ELSE IF HasAt(s, i, "true") THEN ParseOk(PyBool(TRUE), i + 4)
        ELSE IF HasAt(s, i, "false") THEN ParseOk(PyBool(FALSE), i + 5)
        ELSE IF IsDigit(c) THEN ParseNumber(s, i)
        ELSE ParseFail

\* The parse r of the first value of s, accepted when only whitespace follows.
WholeText(s, r) ==
    IF r.ok /\ SkipWS(s, r.pos) = Len(s) + 1
    THEN [ok |-> TRUE, val |-> r.val]
    ELSE [ok |-> FALSE, val |-> PyNone]

\* json.loads(s): [ok, val]; ok is FALSE where json.JSONDecodeError is raised
\* (no value, or extra data after the value).
JsonLoads(s) == WholeText(s, ParseValue(s, SkipWS(s, 1)))

(***************************************************************************)
(* Exceptions (app/domain/errors.py and the Python built-ins the code      *)
(* lets escape).  One record shape for all: fields an exception class does *)
(* not have hold "" (provider, reason) or None (raw_data).                 *)
(***************************************************************************)

NoExc == [type |-> "", message |-> "", provider |-> "", reason |-> "", raw_data |-> PyNone]

\* A Python built-in exception (ValueError, KeyError, TypeError, AttributeError).
BuiltinError(type, message) ==
    [type |-> type, message |-> message, provider |-> "", reason |-> "", raw_data |-> PyNone]

InvalidImageError(reason) ==
    [type |-> "InvalidImageError", message |-> "Invalid image: " \o reason,
     provider |-> "", reason |-> reason, raw_data |-> PyNone]

AIProviderUnavailableError(provider, reason) ==
    [type |-> "AIProviderUnavailableError",
     message |-> "AI provider '" \o provider \o "' unavailable: " \o reason,
     provider |-> provider, reason |-> reason, raw_data |-> PyNone]

InvalidCaptionDataError(reason, raw_data) ==
    [type |-> "InvalidCaptionDataError", message |-> "Invalid caption data: " \o reason,
     provider |-> "", reason |-> reason, raw_data |-> raw_data]

\* The subclasses of CaptionGenerationError: the tagged failures.
CaptionGenerationErrors ==
    {"InvalidProviderError", "InvalidImageError", "AIProviderUnavailableError",
     "InvalidCaptionDataError"}

Raised(exc) == exc.type # ""

(***************************************************************************)
(* Value objects (app/domain/value_objects.py)                             *)
(***************************************************************************)

SUPPORTED_TYPES == {"image/jpeg", "image/jpg", "image/png", "image/webp", "image/gif"}

\* Variant of MimeType: the value is trimmed and lower-cased before the lookup.
MimeType_normalised(value) ==
    IF Strip(Lower(value)) \notin SUPPORTED_TYPES
    THEN [exc |-> BuiltinError("ValueError",
                     "Unsupported MIME type: '" \o value \o
                     "'. Supported types: image/gif, image/jpeg, image/jpg, image/png, image/webp"),
          value |-> ""]
    ELSE [exc |-> NoExc, value |-> Strip(Lower(value))]

\* MimeType(value): [exc, value]
MimeType(value) ==
    IF value \notin SUPPORTED_TYPES
    THEN [exc |-> BuiltinError("ValueError",
                     "Unsupported MIME type: '" \o value \o
                     "'. Supported types: image/gif, image/jpeg, image/jpg, image/png, image/webp"),
          value |-> ""]
    ELSE [exc |-> NoExc, value |-> value]

\* str(mime_type) and mime_type.value of a constructed MimeType m.
MimeType_str(m) == m.value

MaxContextLen == 500

\* Variant of ImageContext: the value is kept as given, untrimmed.
ImageContext_untrimmed(value) ==
    IF value.t = "NoneType" THEN [exc |-> NoExc, value |-> PyNone]
    ELSE IF Len(Strip(value.s)) = 0 THEN [exc |-> NoExc, value |-> PyNone]
    ELSE IF Len(Strip(value.s)) > MaxContextLen
    THEN [exc |-> BuiltinError("ValueError", "Context too long (maximum 500 characters)"),
          value |-> PyNone]
    ELSE [exc |-> NoExc, value |-> value]

\* Variant of ImageContext: the length is measured before trimming.
ImageContext_raw_length(value) ==
    IF value.t = "NoneType" THEN [exc |-> NoExc, value |-> PyNone]
    ELSE IF Len(value.s) > MaxContextLen
    THEN [exc |-> BuiltinError("ValueError", "Context too long (maximum 500 characters)"),
          value |-> PyNone]
    ELSE IF Len(Strip(value.s)) = 0 THEN [exc |-> NoExc, value |-> PyNone]
    ELSE [exc |-> NoExc, value |-> PyStr(Strip(value.s))]

\* ImageContext(value), value None or a str: [exc, value]
ImageContext(value) ==
    IF value.t = "NoneType" THEN [exc |-> NoExc, value |-> PyNone]
    ELSE LET stripped == Strip(value.s)
         IN  IF Len(stripped) = 0 THEN [exc |-> NoExc, value |-> PyNone]
             ELSE IF Len(stripped) > MaxContextLen
             THEN [exc |-> BuiltinError("ValueError", "Context too long (maximum 500 characters)"),
                   value |-> PyNone]
             ELSE [exc |-> NoExc, value |-> PyStr(stripped)]

\* ImageContext.has_context()
has_context(ctx) == ctx.value.t # "NoneType"

\* The members of the enum ProviderName, in definition order.
ProviderNames == <<"gemini", "openai">>

\* Variant of ProviderName.from_string: the value is trimmed, its case kept.
ProviderName_from_string_cased(value) ==
    IF \E i \in 1..Len(ProviderNames) : ProviderNames[i] = Strip(value)
    THEN [exc |-> NoExc, value |-> Strip(value)]
    ELSE [exc |-> BuiltinError("ValueError",
                     "Invalid provider: '" \o value \o "'. Must be one of: gemini, openai"),
          value |-> ""]

\* ProviderName.from_string(value): [exc, value]
ProviderName_from_string(value) ==
    LET value_lower == Strip(Lower(value))
    IN  IF \E i \in 1..Len(ProviderNames) : ProviderNames[i] = value_lower
        THEN [exc |-> NoExc, value |-> value_lower]
        ELSE [exc |-> BuiltinError("ValueError",
                         "Invalid provider: '" \o value \o "'. Must be one of: gemini, openai"),
              value |-> ""]

(***************************************************************************)
(* CaptionEntity (app/domain/entities.py)                                  *)
(***************************************************************************)

MaxHashtags == 10

Entity(short_caption, long_description, hashtags, cta) ==
    [short_caption |-> short_caption, long_description |-> long_description,
     hashtags |-> hashtags, cta |-> cta]

NoEntity == Entity(PyNone, PyNone, PyNone, PyNone)

\* `not x or len(x.strip()) == 0` then raise ValueError(msg): the exception this
\* raises for field value x, NoExc when the field passes.
CheckText(x, msg) ==
    IF Falsy(x) THEN BuiltinError("ValueError", msg)
    ELSE IF x.t # "str"
    THEN BuiltinError("AttributeError", "'" \o x.t \o "' object has no attribute 'strip'")
    ELSE IF Len(Strip(x.s)) = 0 THEN BuiltinError("ValueError", msg)
    ELSE NoExc

\* Whether len(x) is defined.
HasLen(x) == x.t \in {"str", "list", "dict"}

\* The items `for tag in x` yields: the characters of a str, the items of a
\* list, the keys of a dict.
IterItems(x) ==
    CASE x.t = "str"  -> [i \in 1..Len(x.s) |-> PyStr(CharAt(x.s, i))]
      [] x.t = "list" -> x.items
      [] x.t = "dict" -> [i \in 1..Len(x.pairs) |-> PyStr(x.pairs[i].k)]

\* Whether `"#" in tag` is defined, and its value.
HashIn(tag) ==
    CASE tag.t = "str"  -> Contains(tag.s, "#")
      [] tag.t = "list" -> \E i \in 1..Len(tag.items) : tag.items[i] = PyStr("#")
      [] tag.t = "dict" -> \E i \in 1..Len(tag.pairs) : tag.pairs[i].k = "#"
      [] OTHER          -> FALSE

\* str(tag) for a tag that is a str; the type name stands for other values.
TagText(tag) == IF tag.t = "str" THEN tag.s ELSE "<" \o tag.t \o ">"

\* Variant of CheckTag: the round does not look for the # symbol.
CheckTag_hash_allowed(tag) ==
    IF ~HasLen(tag)
    THEN BuiltinError("TypeError", "argument of type '" \o tag.t \o "' is not iterable")
    ELSE CheckText(tag, "Hashtags cannot be empty")

\* One round of the loop over the hashtags.
CheckTag(tag) ==
    IF ~HasLen(tag)
    THEN BuiltinError("TypeError", "argument of type '" \o tag.t \o "' is not iterable")
    ELSE IF HashIn(tag)
    THEN BuiltinError("ValueError", "Hashtag '" \o TagText(tag) \o "' should not contain # symbol")
    ELSE CheckText(tag, "Hashtags cannot be empty")

\* Statements in sequence: the exception of the first when it raises, else
\* that of the rest.
FirstRaised(first, rest) == IF Raised(first) THEN first ELSE rest

RECURSIVE CheckTags(_, _)
\* The loop over the hashtags from item i: the first exception raised.
CheckTags(items, i) ==
    IF i > Len(items) THEN NoExc
    ELSE FirstRaised(CheckTag(items[i]), CheckTags(items, i + 1))

\* The hashtag checks of validate(): count, then the loop over the tags.
CheckHashtags(hashtags) ==
    IF ~HasLen(hashtags)
    THEN BuiltinError("TypeError", "object of type '" \o hashtags.t \o "' has no len()")
    ELSE IF PyLen(hashtags) = 0
    THEN BuiltinError("ValueError", "At least one hashtag is required")
    ELSE IF PyLen(hashtags) > MaxHashtags
    THEN BuiltinError("ValueError", "Too many hashtags (maximum 10)")
    ELSE CheckTags(IterItems(hashtags), 1)

\* CaptionEntity.validate(): the exception it raises, NoExc when it returns.
validate(e) ==
    FirstRaised(CheckText(e.short_caption, "Short caption cannot be empty"),
    FirstRaised(CheckText(e.long_description, "Long description cannot be empty"),
    FirstRaised(CheckText(e.cta, "CTA cannot be empty"),
                CheckHashtags(e.hashtags))))

\* data[key] on a parsed JSON value: [exc, val]
GetItem(data, key) ==
    IF data.t = "dict"
    THEN IF KeyIndex(data.pairs, key) = 0
         THEN [exc |-> BuiltinError("KeyError", "'" \o key \o "'"), val |-> PyNone]
         ELSE [exc |-> NoExc, val |-> data.pairs[KeyIndex(data.pairs, key)].val]
    ELSE IF data.t = "list"
    THEN [exc |-> BuiltinError("TypeError", "list indices must be integers or slices, not str"),
          val |-> PyNone]
    ELSE IF data.t = "str"
    THEN [exc |-> BuiltinError("TypeError", "string indices must be integers, not 'str'"),
          val |-> PyNone]
    ELSE [exc |-> BuiltinError("TypeError", "'" \o data.t \o "' object is not subscriptable"),
          val |-> PyNone]

\* What a constructor call whose validation gave checked produces.
Built(checked, e) ==
    IF Raised(checked) THEN [exc |-> checked, entity |-> NoEntity]
    ELSE [exc |-> NoExc, entity |-> e]

\* The constructor call of from_dict: lookup is the exception of the first
\* failed lookup, e the entity of the four values; __post_init__ validates.
Construct(lookup, e) ==
    IF Raised(lookup) THEN [exc |-> lookup, entity |-> NoEntity]
    ELSE Built(validate(e), e)

\* CaptionEntity(short_caption, long_description, hashtags, cta): the dataclass
\* constructor sets the four fields and __post_init__ validates: [exc, entity].
CaptionEntity(short_caption, long_description, hashtags, cta) ==
    Built(validate(Entity(short_caption, long_description, hashtags, cta)),
          Entity(short_caption, long_description, hashtags, cta))

\* CaptionEntity.from_dict(data): [exc, entity].  The four lookups run in the
\* order of the call's arguments; the constructor then validates
\* (__post_init__).
from_dict(data) ==
    Construct(
        FirstRaised(GetItem(data, "short_caption").exc,
        FirstRaised(GetItem(data, "long_description").exc,
        FirstRaised(GetItem(data, "hashtags").exc,
                    GetItem(data, "cta").exc))),
        Entity(GetItem(data, "short_caption").val, GetItem(data, "long_description").val,
               GetItem(data, "hashtags").val, GetItem(data, "cta").val))

\* Variant of to_dict: the call to action goes under the key "call_to_action".
to_dict_renamed(e) ==
    PyDict(<< [k |-> "short_caption", val |-> e.short_caption],
              [k |-> "long_description", val |-> e.long_description],
              [k |-> "hashtags", val |-> e.hashtags],
              [k |-> "call_to_action", val |-> e.cta] >>)

\* CaptionEntity.to_dict(): the dict of the four fields, hashtags the list
\* the entity holds.
to_dict(e) ==
    PyDict(<< [k |-> "short_caption", val |-> e.short_caption],
              [k |-> "long_description", val |-> e.long_description],
              [k |-> "hashtags", val |-> e.hashtags],
              [k |-> "cta", val |-> e.cta] >>)

(***************************************************************************)
(* str() of Python values                                                  *)
(***************************************************************************)

DigitOf(n) == CharAt("0123456789", n + 1)

RECURSIVE IntToStr(_)
\* str(n) for an int n >= 0
IntToStr(n) == IF n < 10 THEN DigitOf(n) ELSE IntToStr(n \div 10) \o DigitOf(n % 10)

RECURSIVE ReprBody(_, _)
\* The characters of s as repr() writes them between quotes of kind q.
ReprBody(s, q) ==
    IF s = "" THEN ""
    ELSE LET c == Head(s)
             w == IF c = "\\" THEN "\\\\"
                  ELSE IF c = "\n" THEN "\\n"
                  ELSE IF c = "\t" THEN "\\t"
                  ELSE IF c = "\r" THEN "\\r"
                  ELSE IF c = q THEN "\\" \o q
                  ELSE c
         IN  w \o ReprBody(Tail(s), q)

\* repr(s) of a str: single quotes, double quotes when s holds a single quote
\* and no double quote.
ReprStr(s) ==
    IF Contains(s, "'") /\ ~Contains(s, "\"")
    THEN "\"" \o ReprBody(s, "\"") \o "\""
    ELSE "'" \o ReprBody(s, "'") \o "'"

RECURSIVE PyRepr(_)
RECURSIVE ReprItems(_, _)
RECURSIVE ReprPairs(_, _)

\* The items of a list from index i, separated by ", ".
ReprItems(xs, i) ==
    IF i > Len(xs) THEN ""
    ELSE (IF i > 1 THEN ", " ELSE "") \o PyRepr(xs[i]) \o ReprItems(xs, i + 1)

\* The items of a dict from index i, as key: value, separated by ", ".
ReprPairs(ps, i) ==
    IF i > Len(ps) THEN ""
    ELSE (IF i > 1 THEN ", " ELSE "") \o ReprStr(ps[i].k) \o ": " \o PyRepr(ps[i].val)
         \o ReprPairs(ps, i + 1)

\* repr(x); str(x) for a list or a dict is the same text.
PyRepr(x) ==
    CASE x.t = "str"      -> ReprStr(x.s)
      [] x.t = "int"      -> x.digits
      [] x.t = "NoneType" -> "None"
      [] x.t = "bool"     -> IF x.b THEN "True" ELSE "False"
      [] x.t = "list"     -> "[" \o ReprItems(x.items, 1) \o "]"
      [] x.t = "dict"     -> "{" \o ReprPairs(x.pairs, 1) \o "}"

\* str(x)
PyStrOf(x) == IF x.t = "str" THEN x.s ELSE PyRepr(x)

(***************************************************************************)
(* Response extractors.  A TLA+ string cannot hold the backtick: the model *)
(* writes the backtick as ^, and no modelled text uses ^ for anything else.*)
(***************************************************************************)

Fence == "^^^"

FenceJson == "^^^json"

\* Variant of CloudExtractJson: the generic fence is looked for first.
CloudExtractJson_generic_first(text) ==
    IF StartsWith(Strip(text), Fence)
    THEN Strip(SplitFirst(SplitSecond(Strip(text), Fence), Fence))
    ELSE Strip(text)

\* Variant of CloudExtractJson: the content between the fences is not trimmed.
CloudExtractJson_untrimmed(text) ==
    IF StartsWith(Strip(text), FenceJson)
    THEN SplitFirst(SplitSecond(Strip(text), FenceJson), Fence)
    ELSE IF StartsWith(Strip(text), Fence)
    THEN SplitFirst(SplitSecond(Strip(text), Fence), Fence)
    ELSE Strip(text)

\* The cloud adapters' _extract_json (the two are the same code).
CloudExtractJson(text) ==
    LET t == Strip(text)
    IN  IF StartsWith(t, FenceJson)
        THEN Strip(SplitFirst(SplitSecond(t, FenceJson), Fence))
        ELSE IF StartsWith(t, Fence)
        THEN Strip(SplitFirst(SplitSecond(t, Fence), Fence))
        ELSE t

\* GeminiProvider._extract_json
Gemini_extract_json(text) == CloudExtractJson(text)

\* OpenAIProvider._extract_json
OpenAI_extract_json(text) == CloudExtractJson(text)

\* OllamaProvider._extract_json: text[start:end+1] is empty when end < start.
Ollama_extract_json(text) ==
    LET t     == Strip(text)
        start == Find(t, "{")
        end   == RFind(t, "}")
    IN  IF start # 0 /\ end # 0 THEN SubSeq(t, start, end) ELSE t

(***************************************************************************)
(* Provider adapters (app/infrastructure/providers).  generate_caption is  *)
(* split at its one suspension point, the backend call: the part before it *)
(* builds the outbound call, the part after it turns the backend's reply   *)
(* into [exc, entity].                                                     *)
(*                                                                         *)
(* A reply is [kind, cause, msg, text, wrap, shape, value]:                *)
(*   kind "raise"   the call raised; cause names why, msg is str(e)        *)
(*   kind "text"    the call returned text                                 *)
(*   kind "no_text" the call returned a response that holds no text        *)
(*   kind "entity"  (stub adapter only) the entity the adapter hands back  *)
(* wrap, shape and value say how the mock backend built the text.          *)
(***************************************************************************)

\* Stands for the long prompt text of app/domain/prompts.py.
SYSTEM_PROMPT == "You MUST respond with a valid JSON object"

\* The prompt: the template, then the context when `if context:` holds.
BuildPrompt(context) ==
    IF Falsy(context) THEN SYSTEM_PROMPT
    ELSE SYSTEM_PROMPT \o "\n\nContext/Tone: " \o context.s

\* What every except block around a failed json.loads formats as {e}.
JSONDecodeMsg == "JSONDecodeError"

\* The outbound calls GeminiProvider.generate_caption makes.
Gemini_calls(image_data, mime_type, context) ==
    << [backend |-> "gemini", model |-> "gemini-2.0-flash", prompt |-> BuildPrompt(context),
        mime_type |-> mime_type, nbytes |-> Len(image_data)] >>

\* The outbound calls OpenAIProvider.generate_caption makes.
OpenAI_calls(image_data, mime_type, context) ==
    << [backend |-> "openai", model |-> "gpt-4o-mini", prompt |-> BuildPrompt(context),
        mime_type |-> mime_type, nbytes |-> Len(image_data)] >>

\* The outbound calls OllamaProvider.generate_caption makes (the payload holds
\* no MIME type).
Ollama_calls(image_data, mime_type, context) ==
    << [backend |-> "ollama", model |-> "llava", prompt |-> BuildPrompt(context),
        mime_type |-> "", nbytes |-> Len(image_data)] >>

\* Variant of WrapConstruct: the except clause drops the constructor's message.
WrapConstruct_bare(built, raw) ==
    IF built.exc.type \in {"KeyError", "ValueError"}
    THEN [exc |-> InvalidCaptionDataError("Invalid caption data format", raw),
          entity |-> NoEntity]
    ELSE built

\* The second try block of the adapters: built is what from_dict gave, raw the
\* raw_data the except clause attaches.  Only KeyError and ValueError are
\* caught.
WrapConstruct(built, raw) ==
    IF built.exc.type \in {"KeyError", "ValueError"}
    THEN [exc |-> InvalidCaptionDataError(
                     "Invalid caption data format: " \o built.exc.message, raw),
          entity |-> NoEntity]
    ELSE built

\* Variant of CloudConstruct: the parse failure keeps no raw text.
CloudConstruct_no_raw(response_text, json_text, parsed) ==
    IF ~parsed.ok
    THEN [exc |-> InvalidCaptionDataError("Failed to parse JSON: " \o JSONDecodeMsg, PyNone),
          entity |-> NoEntity]
    ELSE WrapConstruct(from_dict(parsed.val), PyStr(json_text))

\* The cloud adapters once json.loads(json_text) has given parsed.
CloudConstruct(response_text, json_text, parsed) ==
    IF ~parsed.ok
    THEN [exc |-> InvalidCaptionDataError("Failed to parse JSON: " \o JSONDecodeMsg,
                                          PyStr(response_text)),
          entity |-> NoEntity]
    ELSE WrapConstruct(from_dict(parsed.val), PyStr(json_text))

\* Parse and construct, shared by the two cloud adapters: response_text is the
\* stripped reply text.
CloudParse(response_text, json_text) ==
    CloudConstruct(response_text, json_text, JsonLoads(json_text))

\* Variant of Gemini_after_call: a timeout is raised as a TimeoutError of its
\* own instead of the provider-unavailable error.
Gemini_after_call_by_cause(reply) ==
    IF reply.kind # "text"
    THEN [exc |-> IF reply.cause = "timeout"
                  THEN BuiltinError("TimeoutError", reply.msg)
                  ELSE AIProviderUnavailableError("gemini", reply.msg),
          entity |-> NoEntity]
    ELSE CloudParse(Strip(reply.text), Gemini_extract_json(Strip(reply.text)))

\* GeminiProvider.generate_caption after the backend call.
Gemini_after_call(reply) ==
    IF reply.kind # "text"
    THEN [exc |-> AIProviderUnavailableError("gemini", reply.msg), entity |-> NoEntity]
    ELSE CloudParse(Strip(reply.text), Gemini_extract_json(Strip(reply.text)))

\* OpenAIProvider.generate_caption after the backend call; content None makes
\* .strip() raise inside the try.
OpenAI_after_call(reply) ==
    IF reply.kind = "raise"
    THEN [exc |-> AIProviderUnavailableError("openai", reply.msg), entity |-> NoEntity]
    ELSE IF reply.kind = "no_text"
    THEN [exc |-> AIProviderUnavailableError(
                     "openai", "'NoneType' object has no attribute 'strip'"),
          entity |-> NoEntity]
    ELSE CloudParse(Strip(reply.text), OpenAI_extract_json(Strip(reply.text)))

\* OllamaProvider's second try block on the parsed json_data.
Ollama_construct(json_data) == WrapConstruct(from_dict(json_data), PyStr(PyStrOf(json_data)))

\* OllamaProvider's fallback: direct parsing failed, second is the parse of
\* the extracted text.
Ollama_fallback(response_text, second) ==
    IF ~second.ok
    THEN [exc |-> InvalidCaptionDataError(
                     "Failed to parse JSON from Ollama response: " \o JSONDecodeMsg,
                     PyStr(response_text)),
          entity |-> NoEntity]
    ELSE Ollama_construct(second.val)

\* Variant of Ollama_direct: the extractor runs before any direct parse.
Ollama_direct_extract_first(response_text, direct) ==
    Ollama_fallback(response_text, JsonLoads(Ollama_extract_json(response_text)))

\* OllamaProvider's first try block: direct is json.loads(response_text).
Ollama_direct(response_text, direct) ==
    IF direct.ok THEN Ollama_construct(direct.val)
    ELSE Ollama_fallback(response_text, JsonLoads(Ollama_extract_json(response_text)))

\* OllamaProvider: parse and construct on the unstripped reply text.
Ollama_parse(response_text) == Ollama_direct(response_text, JsonLoads(response_text))

\* Variant of Ollama_after_call: the transport error is raised without the
\* backend's name.
Ollama_after_call_unlabelled(reply) ==
    IF reply.kind = "raise"
    THEN [exc |-> AIProviderUnavailableError("", reply.msg), entity |-> NoEntity]
    ELSE Ollama_parse(IF reply.kind = "text" THEN reply.text ELSE "")

\* OllamaProvider.generate_caption after the backend call; a body without the
\* "response" key gives the text "".
Ollama_after_call(reply) ==
    IF reply.kind = "raise"
    THEN [exc |-> AIProviderUnavailableError("ollama", reply.msg), entity |-> NoEntity]
    ELSE Ollama_parse(IF reply.kind = "text" THEN reply.text ELSE "")

\* An AIProviderPort implementation that is none of the three: it makes no
\* backend call and hands back whatever entity it holds, unvalidated, or raises.
Stub_calls(image_data, mime_type, context) == << >>

\* The entity object whose four attributes are the four items of dict d, set
\* without running validate().
EntityOfDict(d) ==
    Entity(GetItem(d, "short_caption").val, GetItem(d, "long_description").val,
           GetItem(d, "hashtags").val, GetItem(d, "cta").val)

Stub_after_call(reply) ==
    IF reply.kind = "raise"
    THEN [exc |-> BuiltinError("RuntimeError", reply.msg), entity |-> NoEntity]
    ELSE [exc |-> NoExc, entity |-> EntityOfDict(reply.value)]

RealAdapters == {"gemini", "openai", "ollama"}

Adapters == RealAdapters \cup {"stub"}

\* self._provider.generate_caption(...) up to the suspension point.
Adapter_calls(adapter, image_data, mime_type, context) ==
    CASE adapter = "gemini" -> Gemini_calls(image_data, mime_type, context)
      [] adapter = "openai" -> OpenAI_calls(image_data, mime_type, context)
      [] adapter = "ollama" -> Ollama_calls(image_data, mime_type, context)
      [] adapter = "stub"   -> Stub_calls(image_data, mime_type, context)

\* self._provider.generate_caption(...) from the suspension point on.
Adapter_after_call(adapter, reply) ==
    CASE adapter = "gemini" -> Gemini_after_call(reply)
      [] adapter = "openai" -> OpenAI_after_call(reply)
      [] adapter = "ollama" -> Ollama_after_call(reply)
      [] adapter = "stub"   -> Stub_after_call(reply)

(***************************************************************************)
(* GenerateCaptionUseCase.execute (app/application/usecases), split at the *)
(* await of the adapter.  An input is                                      *)
(*   [image_data, mime_type_str, context_str, provider_name_str, adapter]: *)
(* the four arguments of execute and the adapter the use case was built    *)
(* with.  A log entry is [level, message, extra], extra the keyword        *)
(* arguments as a dict.                                                    *)
(***************************************************************************)

LogEntry(level, message, extra) == [level |-> level, message |-> message, extra |-> extra]

KV(k, val) == [k |-> k, val |-> val]

\* Lines 59-64: the start event.
StartLog(in) ==
    LogEntry("info", "Starting caption generation",
             PyDict(<< KV("provider", PyStr(in.provider_name_str)),
                       KV("has_context", PyBool(in.context_str.t # "NoneType")),
                       KV("image_size", PyInt(IntToStr(Len(in.image_data)))) >>))

\* Variant of ValidateInputs: the zero-length check runs before the three
\* value objects are parsed.
ValidateInputs_image_first(in) ==
    LET mime     == MimeType(in.mime_type_str)
        context  == ImageContext(in.context_str)
        provider == ProviderName_from_string(in.provider_name_str)
        warn(e)  == << LogEntry("warning", "Input validation failed: " \o e.message,
                                PyDict(<< >>)) >>
        res(e, ev, lg) == [exc |-> e, events |-> ev, logs |-> lg, mime_type |-> mime,
                           context |-> context, provider_name |-> provider]
    IN  IF Len(in.image_data) = 0
        THEN res(InvalidImageError("Image data is empty"), << "check.image" >>, << >>)
        ELSE IF Raised(mime.exc)
        THEN res(mime.exc, << "check.image", "check.mime" >>, warn(mime.exc))
        ELSE IF Raised(context.exc)
        THEN res(context.exc, << "check.image", "check.mime", "check.context" >>,
                 warn(context.exc))
        ELSE IF Raised(provider.exc)
        THEN res(provider.exc,
                 << "check.image", "check.mime", "check.context", "check.provider" >>,
                 warn(provider.exc))
        ELSE res(NoExc, << "check.image", "check.mime", "check.context", "check.provider" >>,
                 << >>)

\* Lines 66-77: the input checks, in the order the code runs them.  The result
\* holds the checks that ran (events), the exception raised, the log entries
\* written, and the three value objects.
ValidateInputs(in) ==
    LET mime     == MimeType(in.mime_type_str)
        context  == ImageContext(in.context_str)
        provider == ProviderName_from_string(in.provider_name_str)
        warn(e)  == << LogEntry("warning", "Input validation failed: " \o e.message,
                                PyDict(<< >>)) >>
        res(e, ev, lg) == [exc |-> e, events |-> ev, logs |-> lg, mime_type |-> mime,
                           context |-> context, provider_name |-> provider]
    IN  IF Raised(mime.exc)
        THEN res(mime.exc, << "check.mime" >>, warn(mime.exc))
        ELSE IF Raised(context.exc)
        THEN res(context.exc, << "check.mime", "check.context" >>, warn(context.exc))
        ELSE IF Raised(provider.exc)
        THEN res(provider.exc, << "check.mime", "check.context", "check.provider" >>,
                 warn(provider.exc))
        ELSE IF Len(in.image_data) = 0
        THEN res(InvalidImageError("Image data is empty"),
                 << "check.mime", "check.context", "check.provider", "check.image" >>, << >>)
        ELSE res(NoExc, << "check.mime", "check.context", "check.provider", "check.image" >>,
                 << >>)

\* Lines 80-85: the debug event after the checks.
ValidatedLog(v) ==
    LogEntry("debug", "Inputs validated",
             PyDict(<< KV("mime_type", PyStr(v.mime_type.value)),
                       KV("has_context", PyBool(has_context(v.context))),
                       KV("provider", PyStr(v.provider_name.value)) >>))

\* Variant of ExecuteStart: the adapter is called whatever the input checks
\* say, and their failure is raised afterwards.
ExecuteStart_call_unchecked(in) ==
    LET v == ValidateInputs(in)
    IN  [exc |-> v.exc,
         events |-> << "log.start" >> \o v.events \o << "adapter.call" >>,
         logs |-> << StartLog(in) >> \o v.logs,
         calls |-> Adapter_calls(in.adapter, in.image_data, v.mime_type.value,
                                 v.context.value)]

\* Lines 58-93: execute up to the await.  calls holds the outbound backend
\* calls the adapter made.
ExecuteStart(in) ==
    LET v == ValidateInputs(in)
    IN  IF Raised(v.exc)
        THEN [exc |-> v.exc, events |-> << "log.start" >> \o v.events,
              logs |-> << StartLog(in) >> \o v.logs, calls |-> << >>]
        ELSE [exc |-> NoExc,
              events |-> << "log.start" >> \o v.events \o << "adapter.call" >>,
              logs |-> << StartLog(in) >> \o v.logs \o << ValidatedLog(v) >>,
              calls |-> Adapter_calls(in.adapter, in.image_data, v.mime_type.value,
                                      v.context.value)]

\* len(entity.hashtags) in the success event.
HashtagCount(e) == PyInt(IntToStr(PyLen(e.hashtags)))

\* provider_name.value, the value object built from the provider argument.
ProviderValue(in) == ProviderName_from_string(in.provider_name_str).value

\* Lines 101-111: entity.validate() gave checked; the success event and the
\* return follow when it raised nothing.
Revalidated(in, entity, checked) ==
    IF Raised(checked)
    THEN [exc |-> checked, entity |-> NoEntity,
          events |-> << "adapter.return", "entity.validate" >>, logs |-> << >>]
    ELSE [exc |-> NoExc, entity |-> entity,
          events |-> << "adapter.return", "entity.validate" >>,
          logs |-> << LogEntry("info", "Caption generated successfully",
                               PyDict(<< KV("provider", PyStr(ProviderValue(in))),
                                         KV("hashtag_count", HashtagCount(entity)) >>)) >>]

\* Variant of ExecuteFinish: the adapter's entity is returned without being
\* validated again (and without the success event).
ExecuteFinish_unchecked(in, res) ==
    IF Raised(res.exc)
    THEN [exc |-> res.exc, entity |-> NoEntity, events |-> << "adapter.raise" >>,
          logs |-> << LogEntry("error", "Caption generation failed: " \o res.exc.message,
                               PyDict(<< KV("provider", PyStr(ProviderValue(in))) >>)) >>]
    ELSE [exc |-> NoExc, entity |-> res.entity, events |-> << "adapter.return" >>,
          logs |-> << >>]

\* Lines 94-111: execute from the adapter's return or raise on.  The result is
\* [exc, entity, events, logs]: exc is what execute raises (NoExc when it
\* returns entity).
ExecuteFinish(in, res) ==
    IF Raised(res.exc)
    THEN [exc |-> res.exc, entity |-> NoEntity, events |-> << "adapter.raise" >>,
          logs |-> << LogEntry("error", "Caption generation failed: " \o res.exc.message,
                               PyDict(<< KV("provider", PyStr(ProviderValue(in))) >>)) >>]
    ELSE Revalidated(in, res.entity, validate(res.entity))

(***************************************************************************)
(* The environment: the callers' inputs and the backends' replies          *)
(***************************************************************************)

RECURSIVE Repeat(_, _)
\* n copies of the text c
Repeat(c, n) ==
    IF n = 0 THEN ""
    ELSE LET h == Repeat(c, n \div 2)
         IN  h \o h \o (IF n % 2 = 1 THEN c ELSE "")

\* Uploads hold 0..MaxImageLen bytes.
MaxImageLen == 1

ImageInputs == { Repeat("B", n) : n \in 0..MaxImageLen }

MimeInputs == {"image/png", "image/jpg", "IMAGE/PNG", "text/plain"}

\* None, blank, padded, at the length limit, one over the limit.
ContextInputs ==
    {PyNone, PyStr("   "), PyStr(" warm "), PyStr(Repeat("a", MaxContextLen)),
     PyStr(Repeat("a", MaxContextLen + 1))}

ProviderInputs == {"gemini", " OpenAI ", "ollama", "claude"}

Inputs ==
    [image_data : ImageInputs, mime_type_str : MimeInputs, context_str : ContextInputs,
     provider_name_str : ProviderInputs, adapter : Adapters]

NoInput ==
    [image_data |-> "", mime_type_str |-> "", context_str |-> PyNone,
     provider_name_str |-> "", adapter |-> ""]

RECURSIVE JsonEscape(_)
\* The characters of s as a JSON string literal holds them.
JsonEscape(s) ==
    IF s = "" THEN ""
    ELSE LET c == Head(s)
             w == IF c = "\"" THEN "\\\""
                  ELSE IF c = "\\" THEN "\\\\"
                  ELSE IF c = "\n" THEN "\\n"
                  ELSE IF c = "\t" THEN "\\t"
                  ELSE c
         IN  w \o JsonEscape(Tail(s))

RECURSIVE JsonDumps(_)
RECURSIVE DumpItems(_, _)
RECURSIVE DumpPairs(_, _)

DumpItems(xs, i) ==
    IF i > Len(xs) THEN ""
    ELSE (IF i > 1 THEN "," ELSE "") \o JsonDumps(xs[i]) \o DumpItems(xs, i + 1)

DumpPairs(ps, i) ==
    IF i > Len(ps) THEN ""
    ELSE (IF i > 1 THEN "," ELSE "") \o "\"" \o JsonEscape(ps[i].k) \o "\":"
         \o JsonDumps(ps[i].val) \o DumpPairs(ps, i + 1)

\* The JSON text a backend writes for value x.
JsonDumps(x) ==
    CASE x.t = "str"      -> "\"" \o JsonEscape(x.s) \o "\""
      [] x.t = "int"      -> x.digits
      [] x.t = "NoneType" -> "null"
      [] x.t = "bool"     -> IF x.b THEN "true" ELSE "false"
      [] x.t = "list"     -> "[" \o DumpItems(x.items, 1) \o "]"
      [] x.t = "dict"     -> "{" \o DumpPairs(x.pairs, 1) \o "}"

\* n hashtags t1 .. tn
Tags(n) == PyList([i \in 1..n |-> PyStr("t" \o IntToStr(i))])

CaptionDict(sc, ld, ht, ct) ==
    PyDict(<< KV("short_caption", sc), KV("long_description", ld), KV("hashtags", ht),
              KV("cta", ct) >>)

S == PyStr("S")

L == PyStr("L")

C == PyStr("C")

XY == PyList(<< PyStr("x"), PyStr("y") >>)

\* The four-field objects a backend may send: shape names what is special
\* about value.  The good ones satisfy every entity rule.
Bodies ==
    { [shape |-> "good", value |-> CaptionDict(S, L, XY, C)],
      [shape |-> "good", value |-> CaptionDict(PyStr(" Golden hour "), PyStr("One\nTwo"),
                                                Tags(MaxHashtags), PyStr("Tap {now}!"))],
      [shape |-> "good_with_fence", value |-> CaptionDict(PyStr("Use ^^^ here"), L, XY, C)],
      [shape |-> "empty_field", value |-> CaptionDict(PyStr(""), L, XY, C)],
      [shape |-> "empty_field", value |-> CaptionDict(S, L, XY, PyStr("  "))],
      [shape |-> "no_hashtags", value |-> CaptionDict(S, L, Tags(0), C)],
      [shape |-> "too_many_hashtags", value |-> CaptionDict(S, L, Tags(MaxHashtags + 1), C)],
      [shape |-> "hash_in_hashtag",
       value |-> CaptionDict(S, L, PyList(<< PyStr("x"), PyStr("#y") >>), C)],
      [shape |-> "blank_hashtag",
       value |-> CaptionDict(S, L, PyList(<< PyStr("x"), PyStr(" ") >>), C)],
      [shape |-> "null_hashtags", value |-> CaptionDict(S, L, PyNone, C)],
      [shape |-> "str_hashtags", value |-> CaptionDict(S, L, PyStr("ab"), C)],
      [shape |-> "int_hashtag", value |-> CaptionDict(S, L, PyList(<< PyInt("1") >>), C)],
      [shape |-> "int_field", value |-> CaptionDict(PyInt("5"), L, XY, C)] }

\* Replies that are JSON but hold no four-field object.
OtherJson ==
    { [shape |-> "missing_field",
       value |-> PyDict(<< KV("short_caption", S), KV("long_description", L),
                           KV("hashtags", XY) >>)],
      [shape |-> "not_object", value |-> PyList(<< PyInt("1") >>)] }

\* How a backend wraps the JSON text b.
Wrap(wrap, b) ==
    CASE wrap = "bare"    -> b
      [] wrap = "tagged"  -> FenceJson \o "\n" \o b \o "\n" \o Fence
      [] wrap = "generic" -> Fence \o "\n" \o b \o "\n" \o Fence
      [] wrap = "padded"  -> "  \n" \o FenceJson \o "\n" \o b \o "\n" \o Fence \o " \n"
      [] wrap = "prose"   -> "Here is the JSON: " \o b \o " Enjoy!"

Wraps == {"bare", "tagged", "generic", "padded", "prose"}

Reply(kind, cause, msg, text, wrap, shape, value) ==
    [kind |-> kind, cause |-> cause, msg |-> msg, text |-> text, wrap |-> wrap,
     shape |-> shape, value |-> value]

NoReply == Reply("", "", "", "", "", "", PyNone)

\* Why a backend call raises, with the text of the exception.
TransportErrors ==
    { Reply("raise", "network", "Connection refused", "", "", "", PyNone),
      Reply("raise", "http", "500 Internal Server Error", "", "", "", PyNone),
      Reply("raise", "auth", "401 Unauthorized: invalid API key", "", "", "", PyNone),
      Reply("raise", "timeout", "Request timed out", "", "", "", PyNone) }

JsonReplies ==
    { Reply("text", "", "", Wrap(w, JsonDumps(b.value)), w, b.shape, b.value) :
        w \in Wraps, b \in Bodies \cup OtherJson }

\* Text that is not JSON under any wrapping, with and without white space
\* around it.
GarbageReplies ==
    { Reply("text", "", "", t, "bare", "garbage", PyNone) :
        t \in {"oops", " \n oops, no JSON today \n", "", "{\"short_caption\": \"S\""} }

NoTextReplies == { Reply("no_text", "", "response holds no text", "", "", "", PyNone) }

\* What a backend call can come back with.
BackendReplies == TransportErrors \cup JsonReplies \cup GarbageReplies \cup NoTextReplies

\* What the stub adapter can come back with.
StubReplies ==
    { Reply("entity", "", "", "", "", b.shape, b.value) : b \in Bodies }
    \cup { Reply("raise", "", "stub failure", "", "", "", PyNone) }

(***************************************************************************)
(* The state machine.  Between two awaits a coroutine runs alone, so one   *)
(* action is one such stretch of execute.                                  *)
(***************************************************************************)

Requests == {"r1"}

VARIABLES
    pc,       \* per request: "idle", "awaiting" (suspended in the adapter), "done"
    input,    \* per request: the arguments execute was called with
    sent,     \* per request: the outbound backend calls made, in order
    reply,    \* per request: what the adapter's backend call came back with
    outcome,  \* per request: [kind, exc, entity], kind "" / "returned" / "raised"
    events,   \* per request: the steps execute took, in order
    logs,     \* per request: the log entries written, in order
    call,     \* a direct call of a domain function: [fn, arg, result, pass]
    settings, \* the process's Settings object (get_settings caches one)
    http,     \* the HTTP request the endpoint is handling
    sess,     \* per session: an adapter built by the factory and its invocations
    genai,    \* the API key google.generativeai holds in module state
    loop      \* the session whose blocking call holds the event loop, or ""

vars == << pc, input, sent, reply, outcome, events, logs, call,
           settings, http, sess, genai, loop >>

\* The variables of the HTTP layer and of the adapter sessions.
web == << settings, http >>
adapters == << sess, genai, loop >>

\* No domain function has been called directly.
NoCall == [fn |-> "", arg |-> "", result |-> "", pass |-> 0]

NoOutcome == [kind |-> "", exc |-> NoExc, entity |-> NoEntity]

\* Settings with every field at its default (no environment variable set).
DefaultSettings ==
    [gemini_api_key |-> PyNone, openai_api_key |-> PyNone,
     ollama_base_url |-> PyStr("http://localhost:11434"),
     default_ai_provider |-> "gemini", max_file_size_mb |-> 10]

\* No request has arrived: the upload, the form fields, the endpoint's locals
\* and the response are unset.
NoHttp ==
    [pc |-> "idle", file |-> [content_type |-> PyNone, size |-> 0, pos |-> 0],
     provider |-> PyNone, provider_name |-> "",
     adapter |-> [cls |-> "", credential |-> ""], image_size |-> 0,
     status |-> 0, detail |-> "", body |-> NoEntity, body_provider |-> "", events |-> << >>]

Sessions == {"s1", "s2"}

\* No adapter has been built in the session.
NoSess ==
    [pc |-> "idle", cls |-> "", credential |-> "", config |-> << >>, built |-> << >>,
     keys |-> << >>, asked |-> << >>, replies |-> << >>, outcomes |-> << >>,
     sent |-> << >>]

OutcomeOf(exc, entity) ==
    IF Raised(exc) THEN [kind |-> "raised", exc |-> exc, entity |-> NoEntity]
    ELSE [kind |-> "returned", exc |-> NoExc, entity |-> entity]

Init ==
    /\ pc = [r \in Requests |-> "idle"]
    /\ input = [r \in Requests |-> NoInput]
    /\ sent = [r \in Requests |-> << >>]
    /\ reply = [r \in Requests |-> NoReply]
    /\ outcome = [r \in Requests |-> NoOutcome]
    /\ events = [r \in Requests |-> << >>]
    /\ logs = [r \in Requests |-> << >>]
    /\ call = NoCall
    /\ settings = DefaultSettings
    /\ http = NoHttp
    /\ sess = [s \in Sessions |-> NoSess]
    /\ genai = ""
    /\ loop = ""

\* Request r, called with in, gets as far as st says.
Start(r, in, st) ==
    /\ input' = [input EXCEPT ![r] = in]
    /\ events' = [events EXCEPT ![r] = st.events]
    /\ logs' = [logs EXCEPT ![r] = st.logs]
    /\ sent' = [sent EXCEPT ![r] = st.calls]
    /\ IF Raised(st.exc)
       THEN /\ pc' = [pc EXCEPT ![r] = "done"]
            /\ outcome' = [outcome EXCEPT ![r] = OutcomeOf(st.exc, NoEntity)]
       ELSE /\ pc' = [pc EXCEPT ![r] = "awaiting"]
            /\ UNCHANGED outcome

\* use_case.execute(...) is called and runs to its first suspension: a raise
\* out of the input checks, or the adapter's backend call.
Execute(r) ==
    /\ pc[r] = "idle"
    /\ \E in \in Inputs : Start(r, in, ExecuteStart(in))
    /\ UNCHANGED << reply, call, web, adapters >>

\* Variant of Finish: a failed request repeats its backend call.
Finish_retry(r, rep, fin) ==
    /\ reply' = [reply EXCEPT ![r] = rep]
    /\ events' = [events EXCEPT ![r] = @ \o fin.events]
    /\ logs' = [logs EXCEPT ![r] = @ \o fin.logs]
    /\ outcome' = [outcome EXCEPT ![r] = OutcomeOf(fin.exc, fin.entity)]
    /\ pc' = [pc EXCEPT ![r] = "done"]
    /\ sent' = [sent EXCEPT ![r] = IF Raised(fin.exc) THEN @ \o @ ELSE @]
    /\ UNCHANGED << input, call, web, adapters >>

\* Request r ends with what execute produced, fin, after reply rep.
Finish(r, rep, fin) ==
    /\ reply' = [reply EXCEPT ![r] = rep]
    /\ events' = [events EXCEPT ![r] = @ \o fin.events]
    /\ logs' = [logs EXCEPT ![r] = @ \o fin.logs]
    /\ outcome' = [outcome EXCEPT ![r] = OutcomeOf(fin.exc, fin.entity)]
    /\ pc' = [pc EXCEPT ![r] = "done"]
    /\ UNCHANGED << input, sent, call, web, adapters >>

\* The rest of execute once the adapter's call has come back with rep.
Resume(r, rep) ==
    Finish(r, rep, ExecuteFinish(input[r], Adapter_after_call(input[r].adapter, rep)))

\* The backend answers (or the transport fails) and the coroutine runs to its
\* end: extract, parse, construct, re-validate, log.
BackendReply(r) ==
    /\ pc[r] = "awaiting"
    /\ input[r].adapter \in RealAdapters
    /\ \E rep \in BackendReplies : Resume(r, rep)

\* The stub adapter returns or raises.
StubReturn(r) ==
    /\ pc[r] = "awaiting"
    /\ input[r].adapter = "stub"
    /\ \E rep \in StubReplies : Resume(r, rep)

Next ==
    \/ \E r \in Requests : Execute(r)
    \/ \E r \in Requests : BackendReply(r)
    \/ \E r \in Requests : StubReturn(r)

Spec == Init /\ [][Next]_vars

(***************************************************************************)
(* Properties of the use case and the adapters                             *)
(***************************************************************************)

Done(r) == pc[r] = "done"

\* Request r went through a backend adapter and the backend call came back.
Answered(r) == Done(r) /\ input[r].adapter \in RealAdapters /\ reply[r] # NoReply

\* A text field rule: a string that is not empty after trim.
TextOk(x) == x.t = "str" /\ Strip(x.s) # ""

\* The CaptionResult rules, the hashtags read as Python's len() and iteration
\* read them.
RulesHold(e) ==
    /\ TextOk(e.short_caption)
    /\ TextOk(e.long_description)
    /\ TextOk(e.cta)
    /\ HasLen(e.hashtags)
    /\ PyLen(e.hashtags) \in 1..MaxHashtags
    /\ \A i \in 1..PyLen(e.hashtags) :
          /\ TextOk(IterItems(e.hashtags)[i])
          /\ ~Contains(IterItems(e.hashtags)[i].s, "#")

\* C1: whenever execute returns, the returned entity satisfies every
\* CaptionResult rule, whatever the adapter handed back (the stub adapter hands
\* back entities that were never validated).
C1_ReturnedEntityValid ==
    \A r \in Requests : outcome[r].kind = "returned" => RulesHold(outcome[r].entity)

\* execute returned the entity of an adapter that does not validate.
C1_Witness ==
    \E r \in Requests :
        /\ Done(r)
        /\ input[r].adapter = "stub"
        /\ outcome[r].kind = "returned"
        /\ outcome[r].entity.hashtags = Tags(MaxHashtags)

\* What each of the four input checks, taken alone, raises on input in: MIME
\* type, context, provider name, zero-length image.
CheckFailures(in) ==
    << MimeType(in.mime_type_str).exc,
       ImageContext(in.context_str).exc,
       ProviderName_from_string(in.provider_name_str).exc,
       IF Len(in.image_data) = 0 THEN InvalidImageError("Image data is empty") ELSE NoExc >>

FailingChecks(in) == { i \in 1..4 : Raised(CheckFailures(in)[i]) }

Earliest(in) == CHOOSE i \in FailingChecks(in) : \A j \in FailingChecks(in) : i <= j

CheckEvents == << "check.mime", "check.context", "check.provider", "check.image" >>

\* C2: the input checks run in the order MIME type, context, provider name,
\* zero-length image; when some checks would fail, execute ends at the earliest
\* of them and raises that check's failure.
C2_EarliestFailureReported ==
    \A r \in Requests :
        (pc[r] # "idle" /\ FailingChecks(input[r]) # {}) =>
            /\ Done(r)
            /\ outcome[r].kind = "raised"
            /\ outcome[r].exc = CheckFailures(input[r])[Earliest(input[r])]
            /\ events[r] = << "log.start" >> \o SubSeq(CheckEvents, 1, Earliest(input[r]))

\* Context, provider name and image all fail; the context failure is raised.
C2_Witness ==
    \E r \in Requests :
        /\ Done(r)
        /\ FailingChecks(input[r]) = {2, 3, 4}
        /\ outcome[r].exc.message = "Context too long (maximum 500 characters)"

EventSet(r) == { events[r][i] : i \in 1..Len(events[r]) }

\* C3: the adapter is invoked only after the four input checks have passed; an
\* execution that ends in a validation rejection has made no adapter call and
\* no backend call.
C3_AdapterOnlyAfterChecks ==
    \A r \in Requests :
        /\ (pc[r] # "idle" /\ FailingChecks(input[r]) # {}) =>
              /\ "adapter.call" \notin EventSet(r)
              /\ sent[r] = << >>
              /\ reply[r] = NoReply
        /\ ("adapter.call" \in EventSet(r) \/ sent[r] # << >>) =>
              /\ FailingChecks(input[r]) = {}
              /\ SubSeq(events[r], 1, 6) = << "log.start" >> \o CheckEvents \o << "adapter.call" >>

\* Only the last check fails, with a backend adapter: rejected, nothing sent.
C3_Witness ==
    \E r \in Requests :
        /\ Done(r)
        /\ input[r].adapter \in RealAdapters
        /\ FailingChecks(input[r]) = {4}
        /\ outcome[r].exc.type = "InvalidImageError"
        /\ sent[r] = << >>

\* C4: one invocation makes at most one outbound backend call on every path,
\* whether the call, the parsing or the construction fails.
C4_AtMostOneBackendCall ==
    \A r \in Requests :
        /\ Len(sent[r]) <= 1
        /\ Cardinality({ i \in 1..Len(events[r]) : events[r][i] = "adapter.call" }) <= 1

\* A request whose backend call failed has ended with that one call made.
C4_Witness ==
    \E r \in Requests :
        /\ Answered(r)
        /\ reply[r].kind = "raise"
        /\ outcome[r].kind = "raised"
        /\ Len(sent[r]) = 1

\* C5: when the backend call raises a transport error, execute raises the
\* provider-unavailable error carrying the name of the backend that was called
\* and the underlying reason.
C5_TransportErrorLabelled ==
    \A r \in Requests :
        (Answered(r) /\ reply[r].kind = "raise") =>
            /\ outcome[r].kind = "raised"
            /\ outcome[r].exc =
                 [type |-> "AIProviderUnavailableError",
                  message |-> "AI provider '" \o input[r].adapter \o "' unavailable: "
                              \o reply[r].msg,
                  provider |-> input[r].adapter,
                  reason |-> reply[r].msg,
                  raw_data |-> PyNone]

\* The Ollama backend refused the connection.
C5_Witness ==
    \E r \in Requests :
        /\ Answered(r)
        /\ input[r].adapter = "ollama"
        /\ reply[r].cause = "network"
        /\ outcome[r].exc.provider = "ollama"

\* The backend returned text that is not JSON under any extraction.
Unparsable(r) == Answered(r) /\ reply[r].kind = "text" /\ reply[r].shape = "garbage"

\* C6 as stated: text that cannot be parsed ends in the invalid-data error
\* whose raw text is the backend's text character for character, for every
\* adapter.
C6_RawTextVerbatim ==
    \A r \in Requests :
        Unparsable(r) =>
            /\ outcome[r].exc.type = "InvalidCaptionDataError"
            /\ outcome[r].exc.raw_data = PyStr(reply[r].text)

\* C6, amended: text that cannot be parsed ends in the invalid-data error whose
\* raw text is the backend's text without its leading and trailing white space
\* for the Gemini and OpenAI adapters, and the backend's text character for
\* character for the Ollama adapter.
C6_RawTextRetained ==
    \A r \in Requests :
        Unparsable(r) =>
            /\ outcome[r].kind = "raised"
            /\ outcome[r].exc.type = "InvalidCaptionDataError"
            /\ outcome[r].exc.raw_data =
                 PyStr(IF input[r].adapter = "ollama" THEN reply[r].text
                       ELSE Strip(reply[r].text))

\* Gemini returned garbage with white space around it.
C6_Witness ==
    \E r \in Requests :
        /\ Unparsable(r)
        /\ input[r].adapter = "gemini"
        /\ reply[r].text = " \n oops, no JSON today \n"
        /\ outcome[r].exc.raw_data = PyStr("oops, no JSON today")

\* The backend returned a fenced JSON object whose four fields satisfy the
\* entity rules.
FencedGood(r) ==
    /\ Answered(r)
    /\ reply[r].kind = "text"
    /\ reply[r].wrap \in {"tagged", "generic", "padded"}
    /\ reply[r].shape \in {"good", "good_with_fence"}

\* C7: a fenced JSON object with four valid fields makes execute return the
\* entity holding exactly those four values, the hashtags in the same order.
C7_FencedObjectReturned ==
    \A r \in Requests :
        FencedGood(r) =>
            /\ outcome[r].kind = "returned"
            /\ outcome[r].entity = EntityOfDict(reply[r].value)

\* C8: every text a backend returns ends either in a valid entity or in an
\* error of the taxonomy (a CaptionGenerationError subclass).
C8_ValidOrTagged ==
    \A r \in Requests :
        (Answered(r) /\ reply[r].kind = "text") =>
            \/ outcome[r].kind = "returned" /\ RulesHold(outcome[r].entity)
            \/ outcome[r].kind = "raised" /\ outcome[r].exc.type \in CaptionGenerationErrors

\* The backend's text parses (for this adapter) to an object the entity
\* constructor rejects: a missing field, an empty field, more than 10 hashtags,
\* a hashtag containing '#'.
ConstructionFails(r) ==
    /\ Answered(r)
    /\ reply[r].kind = "text"
    /\ reply[r].shape \in {"missing_field", "empty_field", "too_many_hashtags",
                           "hash_in_hashtag"}
    /\ (input[r].adapter = "ollama" \/ reply[r].wrap # "prose")

\* C9 as stated: a construction failure propagates as the very failure the
\* entity constructor raises.
C9_ConstructorFailurePropagates ==
    \A r \in Requests :
        ConstructionFails(r) =>
            /\ outcome[r].kind = "raised"
            /\ outcome[r].exc = from_dict(reply[r].value).exc

\* C9, amended: a construction failure is not swallowed: it is raised again as
\* the invalid-data error whose reason is "Invalid caption data format: "
\* followed by the message of the failure the entity constructor raised, an
\* error of another class than every transport failure.
C9_ConstructorFailureWrapped ==
    \A r \in Requests :
        ConstructionFails(r) =>
            /\ outcome[r].kind = "raised"
            /\ outcome[r].exc.type = "InvalidCaptionDataError"
            /\ outcome[r].exc.reason =
                 "Invalid caption data format: " \o from_dict(reply[r].value).exc.message
            /\ \A t \in TransportErrors :
                  Adapter_after_call(input[r].adapter, t).exc.type # outcome[r].exc.type

\* OpenAI returned an object with eleven hashtags.
C9_Witness ==
    \E r \in Requests :
        /\ ConstructionFails(r)
        /\ input[r].adapter = "openai"
        /\ reply[r].shape = "too_many_hashtags"
        /\ outcome[r].exc.reason = "Invalid caption data format: Too many hashtags (maximum 10)"

\* The failure category the specification gives each cause of a transport
\* failure.
CauseCategory(cause) ==
    CASE cause \in {"network", "http"} -> "Unreachable"
      [] cause = "auth"                -> "InvalidCredential"
      [] cause = "timeout"             -> "Timeout"

TransportFailed(r) == Answered(r) /\ reply[r].kind = "raise"

TerminalLogs(lg) ==
    { i \in 1..Len(lg) :
        /\ lg[i].message # "Starting caption generation"
        /\ lg[i].level # "debug" }

\* C21: every execution writes exactly one start event, before any check, and
\* exactly one event at its terminal outcome, as its last entry: on success
\* with the hashtag count, on a failure as a warning or an error.
C21_StartAndTerminalLogged ==
    \A r \in Requests : Done(r) =>
        /\ events[r][1] = "log.start"
        /\ { i \in 1..Len(logs[r]) : logs[r][i].message = "Starting caption generation" } = {1}
        /\ TerminalLogs(logs[r]) = { Len(logs[r]) }
        /\ outcome[r].kind = "returned" =>
               KeyIndex(logs[r][Len(logs[r])].extra.pairs, "hashtag_count") > 0

\* Whether the adapter's code puts a timeout on its backend call: only
\* OllamaProvider passes one (timeout=300.0); the Gemini and OpenAI adapters
\* pass none.
TimeoutCeiling(adapter) == adapter = "ollama"

\* The timeout of a backend call that carries one fires: the await ends with
\* the timeout raised as a transport error.
BackendTimeout(r) ==
    /\ pc[r] = "awaiting"
    /\ TimeoutCeiling(input[r].adapter)
    /\ Resume(r, Reply("raise", "timeout", "Request timed out", "", "", "", PyNone))

\* The use case when a backend may never answer: the only awaits sure to end
\* are those of calls that carry a timeout.
SpecTimeouts == Init /\ [][Next]_vars /\ \A r \in Requests : WF_vars(BackendTimeout(r))

\* C24: every execution suspended in the backend call of one of the three
\* adapters reaches a terminal outcome, the call being cut off when the
\* backend never answers.
C24_EveryExecutionEnds ==
    \A r \in Requests :
        (pc[r] = "awaiting" /\ input[r].adapter \in RealAdapters) ~> Done(r)

(***************************************************************************)
(* ProviderFactory (app/infrastructure/providers/factory.py)               *)
(***************************************************************************)

\* InvalidProviderError(provider) with no list of available providers.
InvalidProviderError(provider) ==
    [type |-> "InvalidProviderError",
     message |-> "Provider '" \o provider \o "' is invalid or unavailable",
     provider |-> provider, reason |-> "", raw_data |-> PyNone]

\* A member of the enum ProviderName: a str whose text is the member's value.
ProviderNameMember(value) == [t |-> "ProviderName", s |-> value]

\* An adapter object: its class and the credential its constructor was given.
Adapter(cls, credential) == [cls |-> cls, credential |-> credential]



\* The if/elif chain of create on the converted provider_name.  The enum has
\* no member OLLAMA: a name that is neither GEMINI nor OPENAI reaches the
\* third comparison, whose right-hand side raises AttributeError.
ProviderFactory_select(member, api_key) ==
    CASE member = "gemini" -> [exc |-> NoExc, adapter |-> Adapter("GeminiProvider", api_key)]
      [] member = "openai" -> [exc |-> NoExc, adapter |-> Adapter("OpenAIProvider", api_key)]
      [] OTHER -> [exc |-> BuiltinError("AttributeError", "OLLAMA"), adapter |-> Adapter("", "")]

\* create after the conversion: converted is ProviderName.from_string's outcome.
ProviderFactory_convert(provider_name, converted, api_key) ==
    IF converted.exc # NoExc
    THEN [exc |-> InvalidProviderError(provider_name.s), adapter |-> Adapter("", "")]
    ELSE ProviderFactory_select(converted.value, api_key)

\* ProviderFactory.create(provider_name, api_key): [exc, adapter].  An enum
\* member is a str too, and is converted like one.
ProviderFactory_create(provider_name, api_key) ==
    IF provider_name.t \in {"str", "ProviderName"}
    THEN ProviderFactory_convert(provider_name, ProviderName_from_string(provider_name.s),
                                 api_key)
    ELSE ProviderFactory_select("", api_key)

(***************************************************************************)
(* Settings (app/core/config.py).  The keys and the base URL are Python    *)
(* values (None or a str), the default provider a string, the size limit   *)
(* an int.                                                                 *)
(***************************************************************************)

\* The field validator of default_ai_provider: [exc, value].
Settings_validate_provider(v) ==
    IF Lower(v) \in {"gemini", "openai", "ollama"}
    THEN [exc |-> NoExc, value |-> Lower(v)]
    ELSE [exc |-> BuiltinError("ValueError",
                     "default_ai_provider must be 'gemini', 'openai' or 'ollama'"),
          value |-> ""]

\* Settings.available_providers, in the order the property appends.
available_providers(st) ==
    (IF Falsy(st.gemini_api_key) THEN << >> ELSE << "gemini" >>)
    \o (IF Falsy(st.openai_api_key) THEN << >> ELSE << "openai" >>)
    \o (IF Falsy(st.ollama_base_url) THEN << >> ELSE << "ollama" >>)

\* Settings.get_provider_key(provider): the key, the base URL, or None.
get_provider_key(st, provider) ==
    CASE Lower(provider) = "gemini" -> st.gemini_api_key
      [] Lower(provider) = "openai" -> st.openai_api_key
      [] Lower(provider) = "ollama" -> st.ollama_base_url
      [] OTHER -> PyNone

\* Settings.validate_providers(): what it raises.
validate_providers(st) ==
    IF Falsy(st.gemini_api_key) /\ Falsy(st.openai_api_key) /\ Falsy(st.ollama_base_url)
    THEN BuiltinError("ValueError",
             "At least one AI provider must be configured "
                 \o "(GEMINI_API_KEY, OPENAI_API_KEY, or OLLAMA_BASE_URL)")
    ELSE NoExc

\* get_settings() under environment env, checked being what the field
\* validator gave for env's default provider: Settings() fails with pydantic's
\* ValidationError when the validator raised, validate_providers() runs on
\* the object otherwise.  [exc, settings]
get_settings_checked(env, checked) ==
    IF Raised(checked.exc)
    THEN [exc |-> BuiltinError("ValidationError", checked.exc.message),
          settings |-> DefaultSettings]
    ELSE [exc |-> validate_providers([env EXCEPT !.default_ai_provider = checked.value]),
          settings |-> [env EXCEPT !.default_ai_provider = checked.value]]

get_settings(env) ==
    get_settings_checked(env, Settings_validate_provider(env.default_ai_provider))

\* Settings.max_file_size_bytes
max_file_size_bytes(st) == st.max_file_size_mb * 1024 * 1024

(***************************************************************************)
(* FileValidator (app/core/security.py).  An upload is                     *)
(* [content_type, size, pos]: the declared type (None or a str), the       *)
(* number of bytes in the file and the file pointer.  read() gives the     *)
(* bytes from the pointer to the end and leaves the pointer at the end.    *)
(***************************************************************************)

FileValidator_allowed_types ==
    {"image/jpeg", "image/jpg", "image/png", "image/webp", "image/gif"}

\* UploadFile.read(): the number of bytes read.
FileRead(file) == file.size - file.pos

\* Lines 52-57: whether the content type check passes.
FileValidator_type_ok(file) ==
    /\ file.content_type.t = "str"
    /\ file.content_type.s \in FileValidator_allowed_types

\* Variant of FileValidator_measure: the file pointer is not reset.
FileValidator_measure_no_seek(st, file) ==
    IF FileRead(file) > max_file_size_bytes(st)
    THEN [status |-> 413, detail |-> "File too large",
          file |-> [file EXCEPT !.pos = file.size]]
    ELSE IF FileRead(file) = 0
    THEN [status |-> 400, detail |-> "File is empty",
          file |-> [file EXCEPT !.pos = file.size]]
    ELSE [status |-> 0, detail |-> "", file |-> [file EXCEPT !.pos = file.size]]

\* Lines 59-78: read the file, reset the pointer, check the size against the
\* limit, then against zero.  status is 0 when the upload passes; the detail
\* of the 413 is cut to its first words.
FileValidator_measure(st, file) ==
    IF FileRead(file) > max_file_size_bytes(st)
    THEN [status |-> 413, detail |-> "File too large", file |-> [file EXCEPT !.pos = 0]]
    ELSE IF FileRead(file) = 0
    THEN [status |-> 400, detail |-> "File is empty", file |-> [file EXCEPT !.pos = 0]]
    ELSE [status |-> 0, detail |-> "", file |-> [file EXCEPT !.pos = 0]]

(***************************************************************************)
(* The endpoint POST /generate-caption (app/api/v1/endpoints/captions.py)  *)
(* with its dependencies (app/api/deps.py).  http holds the upload, the    *)
(* provider form field, the endpoint's locals, the response (status 0      *)
(* while there is none) and the steps taken, in order.                     *)
(***************************************************************************)

RECURSIVE JoinComma(_, _)
\* ", ".join(xs) from item i on.
JoinComma(xs, i) ==
    IF i > Len(xs) THEN ""
    ELSE (IF i > 1 THEN ", " ELSE "") \o xs[i] \o JoinComma(xs, i + 1)

\* The response of a request that ends with an HTTPException.
Rejected(h, status, detail, steps) ==
    [h EXCEPT !.pc = "done", !.status = status, !.detail = detail,
              !.events = @ \o steps]

\* Variant of SelectProvider: an empty form field counts as given.
SelectProvider_empty_given(provider, st) ==
    IF provider.t = "NoneType" THEN st.default_ai_provider ELSE provider.s

\* Line 59: the provider form field when it is given, the default otherwise.
SelectProvider(provider, st) ==
    IF Falsy(provider) THEN st.default_ai_provider ELSE provider.s

\* get_ai_provider once the key is looked up: [exc, adapter].  str() of the
\* HTTPException is its status and detail.
get_ai_provider_keyed(provider_name, api_key) ==
    IF Falsy(api_key)
    THEN [exc |-> BuiltinError("HTTPException",
                     "400: Provider '" \o provider_name \o "' API key not configured"),
          adapter |-> Adapter("", "")]
    ELSE ProviderFactory_create(PyStr(provider_name), api_key.s)

\* deps.get_ai_provider(provider_name, settings, factory)
get_ai_provider(provider_name, st) ==
    get_ai_provider_keyed(provider_name, get_provider_key(st, provider_name))

\* Lines 69-77: built is what get_ai_provider gave; any exception becomes a
\* 500, else the endpoint suspends in file.read().
EndpointConstruct(h, provider_name, built) ==
    IF Raised(built.exc)
    THEN Rejected([h EXCEPT !.provider_name = provider_name], 500, built.exc.message,
                  << "provider.select", "provider.available", "adapter.failed" >>)
    ELSE [h EXCEPT !.pc = "reading", !.provider_name = provider_name,
                   !.adapter = built.adapter,
                   !.events = @ \o << "provider.select", "provider.available",
                                      "adapter.construct" >>]

\* Lines 58-77 for the selected name: the availability check, then the
\* construction of the adapter.
EndpointProvider(st, h, provider_name) ==
    IF \A i \in 1..Len(available_providers(st)) : available_providers(st)[i] # provider_name
    THEN Rejected([h EXCEPT !.provider_name = provider_name], 400,
                  "Provider '" \o provider_name \o "' not available. Available: "
                      \o JoinComma(available_providers(st), 1),
                  << "provider.select", "provider.unavailable" >>)
    ELSE EndpointConstruct(h, provider_name, get_ai_provider(provider_name, st))

\* The rest of validate_file_upload once file.read() has returned, measured
\* being what FileValidator gave, and the endpoint's body up to its own
\* file.read() when the upload passes.
AfterMeasure(st, h, measured) ==
    IF measured.status # 0
    THEN Rejected([h EXCEPT !.file = measured.file], measured.status, measured.detail,
                  << "validate.read", "validate.rejected" >>)
    ELSE EndpointProvider(st, [h EXCEPT !.file = measured.file,
                                        !.events = @ \o << "validate.read" >>],
                          SelectProvider(h.provider, st))

\* The adapter argument of the use case for an adapter class.
AdapterOf(cls) ==
    CASE cls = "GeminiProvider" -> "gemini"
      [] cls = "OpenAIProvider" -> "openai"
      [] cls = "OllamaProvider" -> "ollama"

\* Lines 81-86: the arguments of use_case.execute, image_size bytes having
\* been read from the upload.
ExecuteArgs(h, image_size) ==
    [image_data |-> Repeat("B", image_size),
     mime_type_str |-> IF Falsy(h.file.content_type) THEN "image/jpeg"
                       ELSE h.file.content_type.s,
     context_str |-> PyNone,
     provider_name_str |-> h.provider_name,
     adapter |-> AdapterOf(h.adapter.cls)]

\* Lines 87-95: the HTTP status and detail for what execute raised.
HttpError(h, exc) ==
    CASE exc.type \in CaptionGenerationErrors -> Rejected(h, 500, exc.message, << "respond" >>)
      [] exc.type = "ValidationError" ->
            Rejected(h, 422, "Validation error: " \o exc.message, << "respond" >>)
      [] exc.type = "ValueError" -> Rejected(h, 400, exc.message, << "respond" >>)
      [] OTHER -> Rejected(h, 500, "Unexpected error: " \o exc.message, << "respond" >>)

\* Lines 77-86: image_size bytes were read; execute runs to the adapter's
\* backend call (started.exc not raised) or raises.
EndpointExecute(h, image_size, started) ==
    IF Raised(started.exc)
    THEN HttpError([h EXCEPT !.image_size = image_size, !.file.pos = h.file.size,
                             !.events = @ \o << "file.read", "execute" >>], started.exc)
    ELSE [h EXCEPT !.pc = "awaiting", !.image_size = image_size, !.file.pos = h.file.size,
                   !.events = @ \o << "file.read", "execute", "backend.call" >>]

\* Lines 87-104: execute ended with fin; the entity becomes the response,
\* with the provider name the endpoint selected.
EndpointRespond(h, fin) ==
    IF Raised(fin.exc) THEN HttpError(h, fin.exc)
    ELSE [h EXCEPT !.pc = "done", !.status = 200, !.body = fin.entity,
                   !.body_provider = h.provider_name, !.events = @ \o << "respond" >>]

\* A request arrives: validate_file_upload runs FileValidator.validate up to
\* its file.read(), or rejects the content type.
Request ==
    /\ http.pc = "idle"
    /\ \E content_type \in {PyNone, PyStr("image/png"), PyStr("image/gif"), PyStr("text/plain")},
          size \in {0, 1, 2, max_file_size_bytes(settings) + 1},
          provider \in {PyNone, PyStr(""), PyStr("gemini"), PyStr("openai"), PyStr("ollama"),
                        PyStr("Gemini"), PyStr("claude")} :
          http' = IF FileValidator_type_ok([content_type |-> content_type])
                  THEN [http EXCEPT !.pc = "validating", !.provider = provider,
                                    !.file = [content_type |-> content_type, size |-> size,
                                              pos |-> 0],
                                    !.events = << "validate.type" >>]
                  ELSE Rejected([http EXCEPT !.provider = provider,
                                             !.file = [content_type |-> content_type,
                                                       size |-> size, pos |-> 0]],
                                400,
                                "Invalid file type: " \o PyStrOf(content_type) \o ". Allowed: "
                                    \o "image/gif, image/jpeg, image/jpg, image/png, image/webp",
                                << "validate.type", "validate.rejected" >>)
    /\ UNCHANGED << pc, input, sent, reply, outcome, events, logs, call, settings, adapters >>

\* FileValidator's file.read() returns: the size checks run, and for an
\* upload that passes the endpoint's body runs up to its own file.read().
ValidatorResumes ==
    /\ http.pc = "validating"
    /\ http' = AfterMeasure(settings, http, FileValidator_measure(settings, http.file))
    /\ UNCHANGED << pc, input, sent, reply, outcome, events, logs, call, settings, adapters >>

\* The endpoint's file.read() returns and use_case.execute starts.
EndpointResumes ==
    /\ http.pc = "reading"
    /\ http' = EndpointExecute(http, FileRead(http.file),
                               ExecuteStart(ExecuteArgs(http, FileRead(http.file))))
    /\ UNCHANGED << pc, input, sent, reply, outcome, events, logs, call, settings, adapters >>

\* The backend answers and execute runs to its end.
BackendAnswers ==
    /\ http.pc = "awaiting"
    /\ \E rep \in { Reply("text", "", "", Wrap("tagged", JsonDumps(CaptionDict(S, L, XY, C))),
                          "tagged", "good", CaptionDict(S, L, XY, C)),
                    Reply("text", "", "", "I cannot help with that.", "", "garbage", PyNone),
                    Reply("raise", "network", "Connection refused", "", "", "", PyNone) } :
          http' = EndpointRespond(http,
                      ExecuteFinish(ExecuteArgs(http, http.image_size),
                                    Adapter_after_call(AdapterOf(http.adapter.cls), rep)))
    /\ UNCHANGED << pc, input, sent, reply, outcome, events, logs, call, settings, adapters >>

\* The environments the process may start under: keys unset, empty or set,
\* the base URL empty or set, the default provider in several spellings,
\* the size limit 0 or 10 MB.
Environments ==
    [gemini_api_key : {PyNone, PyStr(""), PyStr("g-key")},
     openai_api_key : {PyNone, PyStr("o-key")},
     ollama_base_url : {PyStr(""), PyStr("http://localhost:11434")},
     default_ai_provider : {"gemini", "OpenAI", "ollama", "claude"},
     max_file_size_mb : {0, 10}]

\* The process has started: get_settings() returned the Settings object it
\* caches, under some environment that passes the startup checks.
InitApi ==
    /\ pc = [r \in Requests |-> "idle"]
    /\ input = [r \in Requests |-> NoInput]
    /\ sent = [r \in Requests |-> << >>]
    /\ reply = [r \in Requests |-> NoReply]
    /\ outcome = [r \in Requests |-> NoOutcome]
    /\ events = [r \in Requests |-> << >>]
    /\ logs = [r \in Requests |-> << >>]
    /\ call = NoCall
    /\ \E env \in Environments :
          /\ ~Raised(get_settings(env).exc)
          /\ settings = get_settings(env).settings
    /\ http = NoHttp
    /\ sess = [s \in Sessions |-> NoSess]
    /\ genai = ""
    /\ loop = ""

NextApi ==
    \/ Request
    \/ ValidatorResumes
    \/ EndpointResumes
    \/ BackendAnswers

\* One request through the endpoint.
SpecApi == InitApi /\ [][NextApi]_vars

\* The steps of http so far include step.
Stepped(step) == \E i \in 1..Len(http.events) : http.events[i] = step

\* C26: FileValidator.validate rejects, in this order, a content type outside
\* the allowed set (400, the file not read), a size above the ceiling (413),
\* an empty file (400); on every path that read the file the pointer is back
\* at 0 afterwards; and the bytes the endpoint then reads and hands to the
\* use case are the whole upload, never empty.
C26_ValidatedUploadIsComplete ==
    /\ http.pc \notin {"idle", "validating"} =>
          IF ~(http.file.content_type.t = "str"
               /\ http.file.content_type.s \in FileValidator_allowed_types)
          THEN /\ http.status = 400
               /\ SubSeq(http.detail, 1, 17) = "Invalid file type"
               /\ ~Stepped("validate.read")
               /\ http.file.pos = 0
          ELSE IF http.file.size > settings.max_file_size_mb * 1024 * 1024
          THEN http.status = 413 /\ http.file.pos = 0 /\ Stepped("validate.read")
          ELSE IF http.file.size = 0
          THEN /\ http.status = 400
               /\ http.detail = "File is empty"
               /\ http.file.pos = 0
               /\ Stepped("validate.read")
          ELSE /\ Stepped("validate.read")
               /\ ~Stepped("validate.rejected")
               /\ ~Stepped("file.read") => http.file.pos = 0
    /\ Stepped("file.read") =>
          /\ http.image_size = http.file.size
          /\ http.image_size > 0
    /\ Stepped("execute") => Stepped("file.read")

\* An upload of two bytes passed validation and the endpoint read both and
\* answered 200.
C26_Witness ==
    /\ http.status = 200
    /\ http.file.size = 2
    /\ http.image_size = 2
    /\ Stepped("validate.read")

\* The name the request asks for: the form field, or the default when the
\* field is absent or empty.
Requested ==
    IF http.provider.t = "str" /\ http.provider.s # ""
    THEN http.provider.s ELSE settings.default_ai_provider

\* The requested name is one of settings.available_providers.
RequestedAvailable ==
    \E i \in 1..Len(available_providers(settings)) :
        available_providers(settings)[i] = Requested

\* The response says 'provider not available'.
NotAvailableResponse ==
    /\ http.status = 400
    /\ http.detail = "Provider '" \o Requested \o "' not available. Available: "
                        \o JoinComma(available_providers(settings), 1)

\* C27 as stated: a request whose provider name is not available is rejected
\* as 'provider not available' with no adapter constructed, the upload not
\* read and no backend call made.
C27_RejectedBeforeUploadRead ==
    (http.pc = "done" /\ ~RequestedAvailable) =>
        /\ NotAvailableResponse
        /\ ~Stepped("adapter.construct")
        /\ ~Stepped("validate.read")
        /\ ~Stepped("file.read")
        /\ ~Stepped("backend.call")

\* C27 amended: for an upload that passes file validation the endpoint uses
\* the form field when given and the default otherwise; an unavailable name
\* is rejected as 'provider not available' with no adapter constructed, no
\* read of the upload by the endpoint and no backend call, the upload having
\* been read once and rewound by the file validation that runs first; a 200
\* response names the provider whose adapter produced the caption.
C27_RejectedBeforeAdapter ==
    /\ Stepped("provider.select") => http.provider_name = Requested
    /\ (http.pc = "done" /\ ~RequestedAvailable) =>
          IF Stepped("validate.rejected")
          THEN /\ ~NotAvailableResponse
               /\ ~Stepped("provider.select")
               /\ http.adapter.cls = ""
          ELSE /\ NotAvailableResponse
               /\ Stepped("validate.read")
               /\ http.file.pos = 0
               /\ http.adapter.cls = ""
               /\ ~Stepped("adapter.construct")
               /\ ~Stepped("file.read")
               /\ ~Stepped("backend.call")
    /\ http.status = 200 =>
          /\ http.body_provider = Requested
          /\ http.body_provider = AdapterOf(http.adapter.cls)
          /\ RequestedAvailable

\* A request with an empty provider field fell back to a default that is not
\* available and was rejected after its upload passed validation.
C27_Witness ==
    /\ http.pc = "done"
    /\ http.provider = PyStr("")
    /\ ~RequestedAvailable
    /\ NotAvailableResponse
    /\ Stepped("validate.read")

\* C28: a request that names an available provider, its upload valid, gets
\* past provider selection and validation and reaches the backend call of
\* that provider's adapter.
C28_AvailableReachesBackend ==
    (/\ http.pc \in {"awaiting", "done"}
     /\ ~Stepped("validate.rejected")
     /\ RequestedAvailable) =>
        /\ Stepped("adapter.construct")
        /\ Stepped("backend.call")
        /\ AdapterOf(http.adapter.cls) = Requested

\* C29: the default provider of the Settings the process started with is one
\* of the available providers, and a request that names no provider is never
\* rejected as 'provider not available'.
C29_DefaultIsAvailable ==
    /\ \E i \in 1..Len(available_providers(settings)) :
          available_providers(settings)[i] = settings.default_ai_provider
    /\ (http.pc = "done" /\ http.provider = PyNone) => ~NotAvailableResponse

(***************************************************************************)
(* Adapters of several requests on one event loop.  A session is one       *)
(* adapter object: sess[s] holds its class, the argument of its            *)
(* constructor, its attributes now (config) and as the constructor left    *)
(* them (built), and per invocation of generate_caption the credential the *)
(* backend call presented (keys), what the backend does with a valid       *)
(* request (asked), what it answered (replies), the request (sent) and the *)
(* outcome.  genai is the API key the google.generativeai library holds    *)
(* for the whole process; loop names the session whose synchronous call    *)
(* holds the event loop, "" when the loop is free.                         *)
(***************************************************************************)

\* The invocations of generate_caption made on one adapter object.
MaxInvocations == 2

RECURSIVE RStripSlash(_)
\* base_url.rstrip('/')
RStripSlash(s) ==
    IF Len(s) > 0 /\ SubSeq(s, Len(s), Len(s)) = "/"
    THEN RStripSlash(SubSeq(s, 1, Len(s) - 1)) ELSE s

\* The attributes an adapter has after __init__(argument): the credential of
\* the client it holds (GeminiProvider holds none: it hands the key to the
\* library), the base URL, the model name and the prompt template.
AdapterInit(cls, argument) ==
    CASE cls = "GeminiProvider" ->
            [credential |-> "", base_url |-> "", model |-> "gemini-2.0-flash",
             prompt |-> SYSTEM_PROMPT]
      [] cls = "OpenAIProvider" ->
            [credential |-> argument, base_url |-> "", model |-> "gpt-4o-mini",
             prompt |-> SYSTEM_PROMPT]
      [] cls = "OllamaProvider" ->
            [credential |-> "", base_url |-> RStripSlash(argument), model |-> "llava",
             prompt |-> SYSTEM_PROMPT]

\* genai.configure(api_key=api_key) in GeminiProvider.__init__: the key the
\* library holds for the process after an adapter of class cls is built.
genai_configure(current, cls, api_key) ==
    IF cls = "GeminiProvider" THEN api_key ELSE current

\* Variant of generate_caption_self: a failed invocation clears the model name.
generate_caption_self_reset(config, res) ==
    IF Raised(res.exc) THEN [config EXCEPT !.model = ""] ELSE config

\* The adapter's attributes after generate_caption ended with res: no
\* statement of the three methods assigns to self.
generate_caption_self(config, res) == config

\* The credential the backend call presents: the adapter's own client's for
\* OpenAI, none for Ollama, the library's for Gemini.
PresentedKey(cls, config, library_key) ==
    IF cls = "GeminiProvider" THEN library_key ELSE config.credential

\* The request of the backend call.
AdapterRequest(cls, config, key) ==
    [backend |-> AdapterOf(cls), base_url |-> config.base_url, model |-> config.model,
     prompt |-> config.prompt, key |-> key]

\* Whether the call of this adapter suspends the coroutine: OpenAI and Ollama
\* await their client; Gemini calls self.model.generate_content(...) without
\* await, so the coroutine keeps the event loop until the call returns.
Suspends(cls) == cls # "GeminiProvider"

\* The key the cloud backends accept.
ValidKey == "key-a"

\* What the backend answers when it would answer rep to a valid request.
BackendAnswer(cls, key, rep) ==
    IF cls = "OllamaProvider" \/ key = ValidKey THEN rep
    ELSE Reply("raise", "auth", "401 Unauthorized: invalid API key", "", "", "", PyNone)

\* The session's adapter is built: by the factory for the cloud providers,
\* by OllamaProvider(base_url) directly.  The constructor does not await.
BuildAdapter(s) ==
    /\ sess[s].pc = "idle"
    /\ loop = ""
    /\ \E cls \in {"GeminiProvider", "OpenAIProvider", "OllamaProvider"},
          argument \in {"key-a", "key-b", "http://localhost:11434", "http://ollama:11434/"} :
          /\ (cls = "OllamaProvider") = (SubSeq(argument, 1, 4) = "http")
          /\ cls # "OllamaProvider" =>
                ProviderFactory_create(PyStr(AdapterOf(cls)), argument).adapter
                    = Adapter(cls, argument)
          /\ sess' = [sess EXCEPT ![s] = [@ EXCEPT !.pc = "built", !.cls = cls,
                                             !.credential = argument,
                                             !.config = AdapterInit(cls, argument),
                                             !.built = AdapterInit(cls, argument)]]
          /\ genai' = genai_configure(genai, cls, argument)
    /\ UNCHANGED << pc, input, sent, reply, outcome, events, logs, call, web, loop >>

\* generate_caption is called on the session's adapter and runs to its
\* backend call.  A Gemini model that has called before may keep the client
\* of its first call or take the library's key again.
Invoke(s) ==
    /\ sess[s].pc = "built"
    /\ Len(sess[s].sent) < MaxInvocations
    /\ loop = ""
    /\ \E key \in {PresentedKey(sess[s].cls, sess[s].config, genai)}
                  \cup (IF sess[s].cls = "GeminiProvider" /\ sess[s].keys # << >>
                        THEN {sess[s].keys[1]} ELSE {}) :
          sess' = [sess EXCEPT ![s] = [@ EXCEPT !.pc = "calling",
                      !.keys = Append(@, key),
                      !.sent = Append(@, AdapterRequest(sess[s].cls, sess[s].config, key))]]
    /\ loop' = IF Suspends(sess[s].cls) THEN loop ELSE s
    /\ UNCHANGED << pc, input, sent, reply, outcome, events, logs, call, web, genai >>

\* The session's adapter, its call having come back with answer where the
\* backend was disposed to answer rep and generate_caption ended with res.
Returned(se, rep, answer, res) ==
    [se EXCEPT !.pc = "built",
               !.asked = Append(@, rep),
               !.replies = Append(@, answer),
               !.outcomes = Append(@, OutcomeOf(res.exc, res.entity)),
               !.config = generate_caption_self(se.config, res)]

\* The backend call of session s comes back and generate_caption runs to its
\* end.  A suspended coroutine resumes when the loop is free; a synchronous
\* call returns into the coroutine that holds the loop.
BackendReturns(s) ==
    /\ sess[s].pc = "calling"
    /\ loop \in {"", s}
    /\ \E rep \in { Reply("text", "", "", Wrap("tagged", JsonDumps(CaptionDict(S, L, XY, C))),
                          "tagged", "good", CaptionDict(S, L, XY, C)),
                    Reply("text", "", "", "I cannot help with that.", "", "garbage", PyNone),
                    Reply("raise", "network", "Connection refused", "", "", "", PyNone) } :
          sess' = [sess EXCEPT ![s] =
                      Returned(sess[s], rep,
                               BackendAnswer(sess[s].cls, sess[s].keys[Len(sess[s].keys)], rep),
                               Adapter_after_call(AdapterOf(sess[s].cls),
                                   BackendAnswer(sess[s].cls,
                                                 sess[s].keys[Len(sess[s].keys)], rep)))]
    /\ loop' = ""
    /\ UNCHANGED << pc, input, sent, reply, outcome, events, logs, call, web, genai >>

NextConc == \E s \in Sessions : BuildAdapter(s) \/ Invoke(s) \/ BackendReturns(s)

\* Two adapters in use on one event loop.
SpecConc == Init /\ [][NextConc]_vars

\* The credential the session's adapter was constructed to present.
OwnKey(s) == IF sess[s].cls = "OllamaProvider" THEN "" ELSE sess[s].credential

\* C22: for any interleaving of two requests, every backend call of an adapter
\* presents the credential that adapter was constructed with, whatever other
\* adapter was built or used meanwhile, and every outcome is the one the
\* request would have if it ran alone.
C22_NoSharedState ==
    \A s \in Sessions : \A i \in 1..Len(sess[s].outcomes) :
        /\ sess[s].keys[i] = OwnKey(s)
        /\ sess[s].outcomes[i] =
              OutcomeOf(Adapter_after_call(AdapterOf(sess[s].cls),
                            BackendAnswer(sess[s].cls, OwnKey(s), sess[s].asked[i])).exc,
                        Adapter_after_call(AdapterOf(sess[s].cls),
                            BackendAnswer(sess[s].cls, OwnKey(s), sess[s].asked[i])).entity)

\* C23: for every adapter the backend call is a suspension point: while any
\* request is in its backend call the event loop is free, so that other
\* requests can start, make their own calls and complete.
C23_BackendCallSuspends ==
    \A s \in Sessions : sess[s].pc = "calling" => loop = ""

Called(fn, arg, result) ==
    /\ call = NoCall
    /\ call' = [fn |-> fn, arg |-> arg, result |-> result, pass |-> 1]
    /\ UNCHANGED << pc, input, sent, reply, outcome, events, logs, web, adapters >>

\* CaptionEntity(...) is called.  The text fields are empty, blank, plain,
\* padded, or no strings; the hashtags are 0, 1, 10 or 11 tags, hold a tag with
\* '#', a blank or an empty tag, or are no list of strings.
ConstructEntity ==
    LET FieldInputs ==
            {PyStr(""), PyStr("  "), PyStr("S"), PyStr(" a b "), PyNone, PyInt("5")}
        HashtagInputs ==
            {Tags(0), Tags(1), Tags(MaxHashtags), Tags(MaxHashtags + 1),
             PyList(<< PyStr("x"), PyStr("#y") >>), PyList(<< PyStr("a#b") >>),
             PyList(<< PyStr("x"), PyStr(" ") >>), PyList(<< PyStr("") >>),
             PyNone, PyStr("ab"), PyList(<< PyInt("1") >>)}
    IN  \E sc \in FieldInputs, ld \in FieldInputs, ct \in FieldInputs, ht \in HashtagInputs :
            Called("CaptionEntity", Entity(sc, ld, ht, ct), CaptionEntity(sc, ld, ht, ct))

\* CaptionEntity.from_dict(data) is called on a parsed JSON value.
CallFromDict ==
    \E data \in { b.value : b \in Bodies \cup OtherJson } :
        Called("from_dict", data, from_dict(data))

\* Whether dict data holds the four keys of an entity.
HasFourKeys(data) ==
    /\ data.t = "dict"
    /\ \A key \in {"short_caption", "long_description", "hashtags", "cta"} :
          KeyIndex(data.pairs, key) # 0

\* C11: constructing an entity succeeds if and only if all the field rules
\* hold together (texts non-empty after trim, 1 to 10 hashtags, each non-empty
\* after trim and without '#'); what the constructor or from_dict returns is
\* the entity of the given values and satisfies the rules.
C11_ConstructionIffRules ==
    /\ call.fn = "CaptionEntity" =>
          /\ ~Raised(call.result.exc) <=> RulesHold(call.arg)
          /\ call.result.entity = (IF RulesHold(call.arg) THEN call.arg ELSE NoEntity)
    /\ call.fn = "from_dict" =>
          /\ ~Raised(call.result.exc) => RulesHold(call.result.entity)
          /\ HasFourKeys(call.arg) =>
                /\ ~Raised(call.result.exc) <=> RulesHold(EntityOfDict(call.arg))
                /\ ~Raised(call.result.exc) => call.result.entity = EntityOfDict(call.arg)

\* The constructor was given eleven hashtags and refused them.
C11_Witness ==
    /\ call.fn = "CaptionEntity"
    /\ call.arg.hashtags = Tags(MaxHashtags + 1)
    /\ TextOk(call.arg.short_caption) /\ TextOk(call.arg.long_description)
    /\ TextOk(call.arg.cta)
    /\ call.result.exc.message = "Too many hashtags (maximum 10)"

\* MimeType(value) is called: the supported types, and the same in another
\* letter case, padded, or other types.
CallMimeType ==
    \E value \in SUPPORTED_TYPES
                 \cup {"IMAGE/PNG", "Image/Jpeg", " image/png", "image/png ", "image/png\n",
                       "text/plain", "image/bmp", "image/svg+xml", "image/", "png", ""} :
        Called("MimeType", value, MimeType(value))

\* C12: MimeType(value) succeeds exactly for the five strings of the allow-list,
\* and then value and str() are the input unchanged; every other string (another
\* letter case, surrounding white space) fails with the unsupported-type error.
C12_MimeTypeAllowList ==
    call.fn = "MimeType" =>
        IF call.arg \in {"image/jpeg", "image/jpg", "image/png", "image/webp", "image/gif"}
        THEN /\ ~Raised(call.result.exc)
             /\ call.result.value = call.arg
             /\ MimeType_str(call.result) = call.arg
        ELSE /\ call.result.exc.type = "ValueError"
             /\ StartsWith(call.result.exc.message,
                           "Unsupported MIME type: '" \o call.arg \o "'")

\* A supported type in upper case was refused.
C12_Witness ==
    /\ call.fn = "MimeType"
    /\ call.arg = "IMAGE/PNG"
    /\ call.result.exc.type = "ValueError"

\* ImageContext(value) is called: None, empty, blank, padded, at the limit,
\* over it, and over it only by the white space around the text.
CallImageContext ==
    \E value \in ContextInputs
                 \cup { PyStr(t) : t \in {"", " \n\t ", "warm", "a",
                                          " " \o Repeat("a", MaxContextLen),
                                          Repeat("a", MaxContextLen - 1) \o "  ",
                                          " " \o Repeat("a", MaxContextLen + 1) \o " "} } :
        Called("ImageContext", value, ImageContext(value))

\* C13: a constructed ImageContext holds None or a string that is trimmed,
\* non-empty and at most 500 characters long; None, the empty string and blank
\* strings all give None; has_context() holds exactly when the value is not
\* None.
C13_ImageContextNormalised ==
    (call.fn = "ImageContext" /\ ~Raised(call.result.exc)) =>
        /\ \/ call.result.value.t = "NoneType"
           \/ /\ call.result.value.t = "str"
              /\ call.result.value.s # ""
              /\ ~IsSpace(CharAt(call.result.value.s, 1))
              /\ ~IsSpace(CharAt(call.result.value.s, Len(call.result.value.s)))
              /\ Len(call.result.value.s) <= 500
        /\ (call.arg.t = "NoneType"
            \/ \A i \in 1..Len(call.arg.s) : IsSpace(CharAt(call.arg.s, i)))
              <=> call.result.value.t = "NoneType"
        /\ has_context(call.result) <=> call.result.value.t # "NoneType"

\* A padded context was trimmed.
C13_Witness ==
    /\ call.fn = "ImageContext"
    /\ call.arg = PyStr(" warm ")
    /\ call.result.value = PyStr("warm")
    /\ has_context(call.result)

\* C14 as stated: ImageContext(s) fails for every string s longer than 500
\* characters.
C14_LongInputFails ==
    (call.fn = "ImageContext" /\ call.arg.t = "str" /\ Len(call.arg.s) > 500) =>
        Raised(call.result.exc)

\* C14, amended: ImageContext(s) fails exactly when s without its leading and
\* trailing white space is longer than 500 characters; the white space around
\* the text does not count.
C14_LongTrimmedInputFails ==
    (call.fn = "ImageContext" /\ call.arg.t = "str") =>
        /\ Raised(call.result.exc) <=>
              \E i \in 1..Len(call.arg.s) : \E j \in (i + 500)..Len(call.arg.s) :
                  /\ ~IsSpace(CharAt(call.arg.s, i))
                  /\ ~IsSpace(CharAt(call.arg.s, j))
        /\ Raised(call.result.exc) =>
              call.result.exc = BuiltinError("ValueError",
                                             "Context too long (maximum 500 characters)")

\* A text of 501 characters between blanks was refused.
C14_Witness ==
    /\ call.fn = "ImageContext"
    /\ call.arg = PyStr(" " \o Repeat("a", 501) \o " ")
    /\ Raised(call.result.exc)

\* ProviderName.from_string(value) is called.  text is the value; expect is the
\* registered name text is a letter-case and padding variant of, "" when it is
\* a variant of none.
CallProviderName ==
    \E value \in { [text |-> "gemini", expect |-> "gemini"],
                   [text |-> "GEMINI", expect |-> "gemini"],
                   [text |-> "  Gemini\n", expect |-> "gemini"],
                   [text |-> "openai", expect |-> "openai"],
                   [text |-> "\tOpenAI ", expect |-> "openai"],
                   [text |-> "OPENAI", expect |-> "openai"],
                   [text |-> "ollama", expect |-> ""],
                   [text |-> "claude", expect |-> ""],
                   [text |-> "gem ini", expect |-> ""],
                   [text |-> "geminis", expect |-> ""],
                   [text |-> "", expect |-> ""] } :
        Called("from_string", value, ProviderName_from_string(value.text))

\* C15: from_string lower-cases and trims before matching, so every letter-case
\* and padding variant of a registered name gives that name; an input that
\* matches none fails with an error that names the requested value and lists
\* every member of ProviderName.
C15_ProviderNameNormalised ==
    call.fn = "from_string" =>
        IF call.arg.expect # ""
        THEN /\ ~Raised(call.result.exc)
             /\ call.result.value = call.arg.expect
        ELSE /\ call.result.exc.type = "ValueError"
             /\ Contains(call.result.exc.message, "'" \o call.arg.text \o "'")
             /\ \A i \in 1..Len(ProviderNames) :
                   Contains(SplitSecond(call.result.exc.message, "Must be one of: "),
                            ProviderNames[i])

\* An upper-case padded name gave the registered name.
C15_Witness ==
    /\ call.fn = "from_string"
    /\ call.arg.text = "\tOpenAI "
    /\ call.result.value = "openai"

\* A cloud adapter's _extract_json(text) is called.  text is core between
\* white space ws, wrapped in a tagged fence, a generic fence or nothing, with
\* pad around it and tail after the closing fence; expect is core.
CallCloudExtract ==
    \E fn \in {"GeminiProvider._extract_json", "OpenAIProvider._extract_json"},
       pad \in {"", " \n"}, mk \in {FenceJson, Fence, ""}, ws \in {"", "\n", " "},
       core \in {"{\"a\":1}", "{\"a\": \"b c\"}", "x y", ""},
       tail \in {"", "\n", " Enjoy!", "\n^^^json\n{\"b\":2}\n^^^"} :
        Called(fn,
               [text |-> pad \o mk \o ws \o core \o ws
                         \o (IF mk = "" THEN "" ELSE Fence \o tail) \o pad,
                expect |-> core],
               IF fn = "GeminiProvider._extract_json"
               THEN Gemini_extract_json(pad \o mk \o ws \o core \o ws
                                        \o (IF mk = "" THEN "" ELSE Fence \o tail) \o pad)
               ELSE OpenAI_extract_json(pad \o mk \o ws \o core \o ws
                                        \o (IF mk = "" THEN "" ELSE Fence \o tail) \o pad))

\* C16: after trimming, text that begins with the tagged fence gives the
\* trimmed content between that marker and the next fence, else text that
\* begins with the generic fence gives the trimmed content between the first
\* and the second fence, else the trimmed text is returned; the tagged fence
\* around {"a":1} gives exactly {"a":1}.
C16_CloudExtractorRules ==
    (call.pass = 1 /\ call.fn \in {"GeminiProvider._extract_json",
                                   "OpenAIProvider._extract_json"}) =>
        call.result = call.arg.expect

\* The tagged fence around {"a":1} gave {"a":1}.
C16_Witness ==
    /\ call.pass = 1
    /\ call.fn = "OpenAIProvider._extract_json"
    /\ call.arg.text = "^^^json\n{\"a\":1}\n^^^"
    /\ call.result = "{\"a\":1}"

\* OllamaProvider._extract_json(text) is called.  expect is the text from the
\* first '{' to the last '}' when the text holds such a stretch, else the
\* trimmed text.
CallOllamaExtract ==
    \E value \in { [text |-> "prefix {\"a\":1} suffix", expect |-> "{\"a\":1}"],
                   [text |-> " \n{\"a\":{\"b\":2}} ", expect |-> "{\"a\":{\"b\":2}}"],
                   [text |-> "x{y}z{w}v", expect |-> "{y}z{w}"],
                   [text |-> "{}", expect |-> "{}"],
                   [text |-> "^^^json\n{\"a\":1}\n^^^", expect |-> "{\"a\":1}"],
                   [text |-> "  no braces here\n", expect |-> "no braces here"],
                   [text |-> " only { open ", expect |-> "only { open"],
                   [text |-> "only } close", expect |-> "only } close"],
                   [text |-> "} {", expect |-> "} {"],
                   [text |-> " done } then { more ", expect |-> "done } then { more"],
                   [text |-> "", expect |-> ""] } :
        Called("OllamaProvider._extract_json", value, Ollama_extract_json(value.text))

\* An extractor is called again on what it returned.
ExtractAgain ==
    /\ call.pass = 1
    /\ call.fn \in {"GeminiProvider._extract_json", "OpenAIProvider._extract_json",
                    "OllamaProvider._extract_json"}
    /\ call' = [fn |-> call.fn, arg |-> call.result, pass |-> 2,
                result |-> CASE call.fn = "GeminiProvider._extract_json" ->
                                    Gemini_extract_json(call.result)
                             [] call.fn = "OpenAIProvider._extract_json" ->
                                    OpenAI_extract_json(call.result)
                             [] call.fn = "OllamaProvider._extract_json" ->
                                    Ollama_extract_json(call.result)]
    /\ UNCHANGED << pc, input, sent, reply, outcome, events, logs, web, adapters >>

\* C17: the extractors are idempotent: the second pass, run on what the first
\* pass returned, returns it unchanged, for the cloud adapters' extractor and
\* for the Ollama adapter's alike.
C17_ExtractorIdempotent == call.pass = 2 => call.result = call.arg

\* A second pass ran on the object the first pass took out of its fence.
C17_Witness ==
    /\ call.pass = 2
    /\ call.fn = "GeminiProvider._extract_json"
    /\ call.arg = "{\"a\":1}"
    /\ call.result = "{\"a\":1}"

\* C18: the brace rule returns the text from the first '{' to the last '}'
\* when the text holds such a stretch, and in every other case (no brace, one
\* kind of brace, the last '}' before the first '{') the trimmed text.
C18_BraceRule ==
    (call.pass = 1 /\ call.fn = "OllamaProvider._extract_json") =>
        call.result = call.arg.expect

\* The parse of one response text by the Ollama adapter, with what its own
\* extractor and the cloud adapters' extractor take out of the same text.
OllamaParseCall(r) ==
    Called("OllamaProvider.generate_caption", r,
           [parsed |-> Ollama_parse(r.text),
            own    |-> Ollama_extract_json(r.text),
            cloud  |-> Gemini_extract_json(r.text)])

\* OllamaProvider.generate_caption parses a response text: a JSON value bare
\* or wrapped, an object inside a bare array, or a fenced object followed by
\* prose that holds braces.
CallOllamaParse ==
    \E r \in JsonReplies
             \cup { Reply("text", "", "", JsonDumps(PyList(<< CaptionDict(S, L, XY, C) >>)),
                          "bare", "object_in_list", PyList(<< CaptionDict(S, L, XY, C) >>)),
                    Reply("text", "", "",
                          Wrap("tagged", JsonDumps(CaptionDict(S, L, XY, C)))
                              \o "\nReplace {name} with yours.",
                          "tagged_then_braces", "good", CaptionDict(S, L, XY, C)) } :
        OllamaParseCall(r)

Fenced == {"tagged", "generic", "padded"}

CallFactory ==
    \E value \in { [provider_name |-> PyStr("gemini"), expect |-> "GeminiProvider"],
                   [provider_name |-> PyStr("GEMINI"), expect |-> "GeminiProvider"],
                   [provider_name |-> ProviderNameMember("gemini"), expect |-> "GeminiProvider"],
                   [provider_name |-> PyStr("openai"), expect |-> "OpenAIProvider"],
                   [provider_name |-> PyStr("OpenAI"), expect |-> "OpenAIProvider"],
                   [provider_name |-> ProviderNameMember("openai"), expect |-> "OpenAIProvider"],
                   [provider_name |-> PyStr("ollama"), expect |-> "OllamaProvider"],
                   [provider_name |-> PyStr("Ollama"), expect |-> "OllamaProvider"],
                   [provider_name |-> PyStr("claude"), expect |-> ""],
                   [provider_name |-> PyStr("gemini2"), expect |-> ""],
                   [provider_name |-> PyStr(""), expect |-> ""],
                   [provider_name |-> PyNone, expect |-> "TypeNotAName"] },
       api_key \in {"sk-1", "http://localhost:11434"} :
        Called("ProviderFactory.create",
               [provider_name |-> value.provider_name, api_key |-> api_key,
                expect |-> value.expect],
               ProviderFactory_create(value.provider_name, api_key))

\* C20: create is a fixed mapping: a registered name (gemini, openai, ollama,
\* as enum member or as string in any letter case) gives that adapter with the
\* credential passed through, any other name fails with InvalidProviderError.
C20_FactoryFixedMapping ==
    (call.fn = "ProviderFactory.create" /\ call.arg.provider_name.t # "NoneType") =>
        IF call.arg.expect = ""
        THEN call.result.exc.type = "InvalidProviderError"
        ELSE /\ call.result.exc = NoExc
             /\ call.result.adapter = Adapter(call.arg.expect, call.arg.api_key)

\* e.to_dict() is called on an entity whose construction succeeded, and
\* CaptionEntity.from_dict on the dict it gave.
CallRoundTrip ==
    \E sc \in {PyStr("S"), PyStr(" Golden hour "), PyStr("")},
       ld \in {PyStr("L"), PyStr("One\nTwo")},
       ct \in {PyStr("C"), PyStr("Tap {now}!")},
       ht \in {Tags(1), Tags(MaxHashtags), Tags(MaxHashtags + 1), PyStr("ab"),
               PyList(<< PyStr("x"), PyStr("y") >>), PyList(<< PyStr("y"), PyStr("x") >>),
               PyList(<< PyStr("x"), PyStr("x") >>)} :
        /\ CaptionEntity(sc, ld, ht, ct).exc = NoExc
        /\ Called("to_dict", Entity(sc, ld, ht, ct),
                  [dict |-> to_dict(Entity(sc, ld, ht, ct)),
                   back |-> from_dict(to_dict(Entity(sc, ld, ht, ct)))])

\* C30: for every valid entity e, from_dict(e.to_dict()) succeeds and equals e
\* field for field, the hashtags in the same order, and the dict to_dict gives
\* holds exactly the keys short_caption, long_description, hashtags and cta,
\* each with its field's value.
C30_DictRoundTrip ==
    call.fn = "to_dict" =>
        /\ call.result.back.exc = NoExc
        /\ call.result.back.entity = call.arg
        /\ Len(call.result.dict.pairs) = 4
        /\ \A key \in {"short_caption", "long_description", "hashtags", "cta"} :
              /\ KeyIndex(call.result.dict.pairs, key) # 0
              /\ call.result.dict.pairs[KeyIndex(call.result.dict.pairs, key)].val
                     = call.arg[key]

\* An entity with ten hashtags went to a dict and back.
C30_Witness ==
    /\ call.fn = "to_dict"
    /\ call.arg.hashtags = Tags(MaxHashtags)
    /\ call.result.back.entity.hashtags = Tags(MaxHashtags)
    /\ call.result.back.entity.cta = PyStr("Tap {now}!")

CallsNext ==
    \/ ConstructEntity
    \/ CallFromDict
    \/ CallMimeType
    \/ CallImageContext
    \/ CallProviderName
    \/ CallCloudExtract
    \/ CallOllamaExtract
    \/ ExtractAgain
    \/ CallOllamaParse
    \/ CallFactory
    \/ CallRoundTrip

\* The domain functions called directly, one call per behaviour.
SpecCalls == Init /\ [][CallsNext]_vars

=============================================================================
